---- MODULE Spec2Model ----
(***************************************************************************)
(* Relay intelligence engine of relayopti: identity normalizer             *)
(* (lib/relay-utils.ts), health prober (hooks/useRelayPing.ts), social     *)
(* graph aggregator (hooks/useContactRelays) and publication orchestrator  *)
(* (hooks/usePublishRelayLists.ts).                                        *)
(*                                                                         *)
(* Each subsystem has its own specification over the shared variables:     *)
(*   SpecNorm     normalizeRelayUrl applied to an input and to its output  *)
(*   SpecUtils    isSameRelay, deduplicateRelays, categorizeLatency and    *)
(*                buildNIP65Tags (with the parser reading its tags back)   *)
(*                applied to drawn arguments                               *)
(*   SpecPublish  one invocation of usePublishRelayLists.mutationFn        *)
(*   SpecProbe    testRelay / testAllRelays / clearStatuses of one hook    *)
(*   SpecProbeFair  SpecProbe with the fairness the timeouts guarantee     *)
(*   SpecAgg      one run of useContactRelays.queryFn (fallback chain)     *)
(*   SpecAggLegacy  one run of the single-indexer useContactRelays.queryFn *)
(***************************************************************************)
EXTENDS Integers, Sequences, FiniteSets, TLC

VARIABLES
    \* ---- identity normalizer (pure functions under test)
    normPc,        \* "input" | "once" | "twice"
    normIn,        \* the URL string handed to normalizeRelayUrl; in
                   \* SpecUtils the call [fn, args] of a pure function
    normOut1,      \* normalizeRelayUrl(normIn); the result of the call
    normOut2       \* normalizeRelayUrl(normOut1); the parse of normOut1

VARIABLES
    \* ---- publication orchestrator (one mutationFn invocation)
    user,          \* TRUE when useCurrentUser() yields a user
    secureOrigin,  \* location.protocol === 'https:'
    lists,         \* the RelayListsToPublish argument
    pubPc,         \* "idle" | "running" | "returned" | "rejected"
    pubIdx,        \* position in UnitOrder of the unit being published
    pubPhase,      \* "sign" | "send": the await the invocation is suspended at
    pubEvent,      \* the signed event awaiting nostr.event
    results,       \* the PublishResult being built: flags and errors
    signLog,       \* every signEvent request issued, in order
    sendLog,       \* every event handed to nostr.event, in order
    signOutcome,   \* per unit, what the signer answered
    sendOutcome,   \* per unit, what the transport answered
    originalState  \* the page's originalState: the lists last loaded or published

VARIABLES
    \* ---- health prober (one mounted useRelayPing hook)
    statuses,      \* the status map: raw URL -> entry (Absent when not set)
    isTesting,     \* the isTesting flag
    probes,        \* every testRelay call so far, in call order
    batches,       \* every testAllRelays call so far, in call order
    lastDone       \* per URL, the testRelay call that completed last (0: none)

VARIABLES
    \* ---- social graph aggregator (one run of useContactRelays.queryFn)
    aggPc,          \* "idle" | "contacts" | "chain" | "nip65" | "profiles"
                    \*   | "returned" | "failed": the await the run is at
    userRelays,     \* the userRelays argument of the hook
    contactPubkeys, \* contactPubkeys
    probeLog,       \* the existence probes of the chain, in issue order
    workingRelay,   \* the adopted relay object: its index in conns, 0: null
    conns,          \* every NRelay1 the run constructed, with its closed flag
    queryLog,       \* every batch query the run issued, in issue order
    received,       \* the kind 10002 events the resolved batch queries returned
    relayUsage,     \* relayUsage, in insertion order
    contactInfo,    \* contactInfo, in insertion order
    aggResult       \* what queryFn returned

normVars == <<normPc, normIn, normOut1, normOut2>>
aggVars == <<aggPc, userRelays, contactPubkeys, probeLog, workingRelay, conns,
             queryLog, received, relayUsage, contactInfo, aggResult>>
probeVars == <<statuses, isTesting, probes, batches, lastDone>>
pubVars == <<user, secureOrigin, lists, pubPc, pubIdx, pubPhase, pubEvent,
             results, signLog, sendLog, signOutcome, sendOutcome, originalState>>

vars == <<normPc, normIn, normOut1, normOut2,
          user, secureOrigin, lists, pubPc, pubIdx, pubPhase, pubEvent,
          results, signLog, sendLog, signOutcome, sendOutcome, originalState,
          statuses, isTesting, probes, batches, lastDone,
          aggPc, userRelays, contactPubkeys, probeLog, workingRelay, conns,
          queryLog, received, relayUsage, contactInfo, aggResult>>

(***************************************************************************)
(* Strings.  A URL string is a sequence of tokens; a token stands for the  *)
(* run of characters it is written with, so concatenation of strings is    *)
(* concatenation of sequences and a regular expression anchored at the end *)
(* of the string looks at the last token.                                  *)
(***************************************************************************)
SchemeTokens == {"wss:", "ws:", "WSS:"}
NameTokens == {"a.com", "A.COM", "b.com"}
PortTokens == {":443", ":80", ":8080"}
Slash == "/"

\* Bounds of the explored input strings.
MaxPathLen == 3

\* String.prototype.toLowerCase, token by token.
LowerToken(t) ==
    CASE t = "A.COM" -> "a.com"
      [] t = "WSS:" -> "wss:"
      [] OTHER -> t

ToLowerCase(s) == [i \in 1..Len(s) |-> LowerToken(s[i])]

\* s.replace(/\/$/, ''): removes ONE slash at the end of the string, if any.
StripTrailingSlash(s) ==
    IF Len(s) > 0 /\ s[Len(s)] = Slash THEN SubSeq(s, 1, Len(s) - 1) ELSE s

\* Number of leading tokens of s, from position i on, that belong to set T.
RECURSIVE RunLen(_, _, _)
RunLen(s, i, T) ==
    IF i <= Len(s) /\ s[i] \in T THEN 1 + RunLen(s, i + 1, T) ELSE 0

\* The scheme-default port the URL parser drops (ws: 80, wss: 443).
DefaultPort(scheme) == IF scheme = "wss:" THEN ":443" ELSE ":80"

NoUrl == [ok |-> FALSE]

(***************************************************************************)
(* new URL(s) for the strings of the model (WHATWG URL parser, no base):   *)
(*  - a string that does not start with a scheme is a parse failure (the   *)
(*    strings of the model that start with a name contain no ':');         *)
(*  - the scheme is lowercased; ws and wss are special schemes: any number *)
(*    of slashes after the scheme is skipped, the host is the following    *)
(*    run of names, lowercased, and an empty host is a failure;            *)
(*  - an optional port follows the host and is dropped when it is the      *)
(*    default of the scheme; a port followed by anything but '/' or the    *)
(*    end of the string is a failure;                                      *)
(*  - the rest is the path, kept as written; an empty path is "/".         *)
(***************************************************************************)
\* (the record is built once the positions of host, port and path are known)
ParsedUrl(s, scheme, hostAt, portAt, hasPort, rest) ==
    IF portAt = hostAt THEN NoUrl
    ELSE IF Len(rest) > 0 /\ rest[1] # Slash THEN NoUrl
    ELSE [ok |-> TRUE,
          protocol |-> scheme,
          hostname |-> ToLowerCase(SubSeq(s, hostAt, portAt - 1)),
          port |-> IF hasPort /\ s[portAt] # DefaultPort(scheme)
                   THEN <<s[portAt]>> ELSE <<>>,
          pathname |-> IF Len(rest) = 0 THEN <<Slash>> ELSE rest]

ParseFromPort(s, scheme, hostAt, portAt, hasPort) ==
    ParsedUrl(s, scheme, hostAt, portAt, hasPort,
              SubSeq(s, IF hasPort THEN portAt + 1 ELSE portAt, Len(s)))

ParseFromHost(s, scheme, hostAt, portAt) ==
    ParseFromPort(s, scheme, hostAt, portAt,
                  portAt <= Len(s) /\ s[portAt] \in PortTokens)

ParseAuthority(s, scheme, hostAt) ==
    ParseFromHost(s, scheme, hostAt, hostAt + RunLen(s, hostAt, NameTokens))

ParseURL(s) ==
    IF Len(s) = 0 \/ s[1] \notin SchemeTokens THEN NoUrl
    ELSE ParseAuthority(s, LowerToken(s[1]), 2 + RunLen(s, 2, {Slash}))

\* The pathname setter of a special-scheme URL: an empty path reads back "/".
SetPathname(u, p) == [u EXCEPT !.pathname = IF Len(p) = 0 THEN <<Slash>> ELSE p]

\* URL.prototype.toString of a special-scheme URL.
UrlToString(u) == <<u.protocol, Slash, Slash>> \o u.hostname \o u.port \o u.pathname

\* parsed.hostname = parsed.hostname.toLowerCase()
LowerHostname(u) == [u EXCEPT !.hostname = ToLowerCase(@)]

\* if (wss and port 443, or ws and port 80) parsed.port = ''
RemoveDefaultPort(u) ==
    IF (u.protocol = "wss:" /\ u.port = <<":443">>)
       \/ (u.protocol = "ws:" /\ u.port = <<":80">>)
    THEN [u EXCEPT !.port = <<>>] ELSE u

\* if (parsed.pathname === '/') parsed.pathname = ''
RemoveRootPath(u) == IF u.pathname = <<Slash>> THEN SetPathname(u, <<>>) ELSE u

\* the try branch of normalizeRelayUrl, the catch branch when new URL throws
NormalizeParsed(url, parsed) ==
    IF parsed.ok
    THEN StripTrailingSlash(UrlToString(RemoveRootPath(RemoveDefaultPort(LowerHostname(parsed)))))
    ELSE StripTrailingSlash(ToLowerCase(url))

\* lib/relay-utils.ts normalizeRelayUrl
normalizeRelayUrl(url) == NormalizeParsed(url, ParseURL(url))

(***************************************************************************)
(* Input strings of the normalizer                                         *)
(***************************************************************************)
RECURSIVE SeqsUpTo(_, _)
SeqsUpTo(S, n) ==
    IF n = 0 THEN {<<>>}
    ELSE LET shorter == SeqsUpTo(S, n - 1)
         IN  shorter \cup {Append(q, x) : q \in {r \in shorter : Len(r) = n - 1}, x \in S}

\* Paths: empty, or a slash followed by segments and slashes.
PathStrings ==
    {<<>>} \cup {<<Slash>> \o q : q \in SeqsUpTo({Slash, "a.com", "A.COM"}, MaxPathLen - 1)}

OptHost == {<<>>} \cup {<<n>> : n \in NameTokens}

\* scheme://host[:port][path], the host possibly missing (unparsable), and
\* strings with no scheme and no ':' at all (always unparsable)
RawUrls ==
    {<<sc, Slash, Slash>> \o h \o po \o pa :
        sc \in SchemeTokens, h \in OptHost,
        po \in {<<>>} \cup {<<p>> : p \in PortTokens}, pa \in PathStrings}
      \cup {h \o pa : h \in OptHost, pa \in PathStrings}

(***************************************************************************)
(* The normalizer applied to an input, and to its own output               *)
(***************************************************************************)
Canonicalize ==
    /\ normPc = "input"
    /\ normOut1' = normalizeRelayUrl(normIn)
    /\ normPc' = "once"
    /\ UNCHANGED <<normIn, normOut2>>
    /\ UNCHANGED <<pubVars, probeVars, aggVars>>

CanonicalizeAgain ==
    /\ normPc = "once"
    /\ normOut2' = normalizeRelayUrl(normOut1)
    /\ normPc' = "twice"
    /\ UNCHANGED <<normIn, normOut1>>
    /\ UNCHANGED <<pubVars, probeVars, aggVars>>

(***************************************************************************)
(* Publication orchestrator: hooks/usePublishRelayLists.ts                 *)
(***************************************************************************)
UrlA == <<"wss:", "/", "/", "a.com">>
UrlASlash == <<"wss:", "/", "/", "A.COM", "/">>
UrlB == <<"wss:", "/", "/", "b.com">>

\* The units of one invocation, in the order the code attempts them.
UnitOrder == <<"nip65", "dm", "search", "blocked", "indexer", "proxy",
               "broadcast", "trusted", "profile", "contactList">>
Units == {UnitOrder[i] : i \in 1..Len(UnitOrder)}
Done == Len(UnitOrder) + 1

\* At most this many units have something to publish in an explored input.
MaxAttempted == 3

Null == [present |-> FALSE]
SampleProfileEvent ==
    [present |-> TRUE, content |-> "profile",
     tags |-> << <<"client", <<"a.com">> >>, <<"alt", <<"b.com">> >> >>]
SampleContactListEvent ==
    [present |-> TRUE, content |-> "",
     tags |-> << <<"p", <<"a.com">> >>, <<"client", <<"a.com">> >> >>]

\* location.hostname of the page

\* the list field (or event field) of RelayListsToPublish a unit publishes
ListField(c) ==
    CASE c = "dm" -> "dmRelays"
      [] c = "search" -> "searchRelays"
      [] c = "blocked" -> "blockedRelays"
      [] c = "indexer" -> "indexerRelays"
      [] c = "proxy" -> "proxyRelays"
      [] c = "broadcast" -> "broadcastRelays"
      [] c = "trusted" -> "trustedRelays"
      [] c = "profile" -> "profileEvent"
      [] c = "contactList" -> "contactListEvent"

AttemptedNeedsBothLists(l, c) ==
    CASE c = "nip65" -> Len(l.inboxRelays) > 0 /\ Len(l.outboxRelays) > 0
      [] c \in {"profile", "contactList"} -> l[ListField(c)].present
      [] OTHER -> Len(l[ListField(c)]) > 0

\* the guard in front of each unit's try block
Attempted(l, c) ==
    CASE c = "nip65" -> Len(l.inboxRelays) > 0 \/ Len(l.outboxRelays) > 0
      [] c \in {"profile", "contactList"} -> l[ListField(c)].present
      [] OTHER -> Len(l[ListField(c)]) > 0

KindOfCombined(c) == 10002
\* kind of the event each unit signs
KindOf(c) ==
    CASE c = "nip65" -> 10002
      [] c = "dm" -> 10050
      [] c = "search" -> 10007
      [] c = "blocked" -> 10006
      [] c = "indexer" -> 10086
      [] c = "proxy" -> 10087
      [] c = "broadcast" -> 10088
      [] c = "trusted" -> 10089
      [] c = "profile" -> 0
      [] c = "contactList" -> 3

\* the prefix of each unit's entry in results.errors
ErrorLabelMislabelled(c) == IF c = "nip65" THEN "NIP-65" ELSE "DM relays"

ErrorLabel(c) ==
    CASE c = "nip65" -> "NIP-65"
      [] c = "dm" -> "DM relays"
      [] c = "search" -> "Search relays"
      [] c = "blocked" -> "Blocked relays"
      [] c = "indexer" -> "Indexer relays"
      [] c = "proxy" -> "Proxy relays"
      [] c = "broadcast" -> "Broadcast relays"
      [] c = "trusted" -> "Trusted relays"
      [] c = "profile" -> "Profile"
      [] c = "contactList" -> "Contact list"

\* Values thrown by the signer and by nostr.event.
ErrTimeout == [isError |-> TRUE, message |-> "The operation timed out."]
ErrSignerRefused == [isError |-> TRUE, message |-> "User rejected"]
SignErrors == {ErrSignerRefused, [isError |-> FALSE, message |-> "rejected"]}
SendErrors ==
    {[isError |-> TRUE, message |-> "All promises were rejected"],
     [isError |-> TRUE, message |-> "no promise in promise.any was resolved"],
     ErrTimeout}

formatRelayError(e) ==
    LET msg == IF e.isError THEN e.message ELSE "Unknown error"
    IN  IF msg \in {"no promise in promise.any was resolved", "All promises were rejected"}
        THEN "All relays failed to accept the event. Please check your relay configuration."
        ELSE msg

\* set of the elements of a sequence
Range(q) == {q[i] : i \in 1..Len(q)}

\* the two loops of buildNIP65Tags, carrying tags and seen
RECURSIVE InboxLoop(_, _, _, _, _)
InboxStep(inbox, i, outboxSet, tags, seen, url, normalized) ==
    IF normalized \in seen
    THEN InboxLoop(inbox, i + 1, outboxSet, tags, seen)
    ELSE InboxLoop(inbox, i + 1, outboxSet,
                   Append(tags, IF normalized \in outboxSet
                                THEN <<"r", url>>
                                ELSE <<"r", url, "read">>),
                   seen \cup {normalized})

InboxLoop(inbox, i, outboxSet, tags, seen) ==
    IF i > Len(inbox) THEN [tags |-> tags, seen |-> seen]
    ELSE InboxStep(inbox, i, outboxSet, tags, seen, inbox[i], normalizeRelayUrl(inbox[i]))

RECURSIVE OutboxLoop(_, _, _, _)
OutboxStep(outbox, i, tags, seen, url, normalized) ==
    IF normalized \in seen
    THEN OutboxLoop(outbox, i + 1, tags, seen)
    ELSE OutboxLoop(outbox, i + 1, Append(tags, <<"r", url, "write">>),
                    seen \cup {normalized})

OutboxLoop(outbox, i, tags, seen) ==
    IF i > Len(outbox) THEN tags
    ELSE OutboxStep(outbox, i, tags, seen, outbox[i], normalizeRelayUrl(outbox[i]))

OutboxAfterInbox(outbox, afterInbox) ==
    OutboxLoop(outbox, 1, afterInbox.tags, afterInbox.seen)

buildNIP65TagsRawOutbox(inbox, outbox) ==
    OutboxAfterInbox(outbox, InboxLoop(inbox, 1, Range(outbox), <<>>, {}))
buildNIP65Tags(inbox, outbox) ==
    OutboxAfterInbox(outbox,
        InboxLoop(inbox, 1, {normalizeRelayUrl(u) : u \in Range(outbox)}, <<>>, {}))

addClientTag(tags, secure) ==
    IF secure THEN Append(tags, <<"client", <<"b.com">> >>) ELSE tags

\* tags.filter(([name]) => name !== 'client')
WithoutClientTags(tags) == SelectSeq(tags, LAMBDA t : t[1] # "client")

\* the event template a unit hands to user.signer.signEvent (created_at, the
\* wall-clock second of the call, is left out)
EventTemplate(l, c, secure) ==
    CASE c = "nip65" ->
           [kind |-> KindOf(c), content |-> "",
            tags |-> addClientTag(buildNIP65Tags(l.inboxRelays, l.outboxRelays), secure)]
      [] c \in {"profile", "contactList"} ->
           [kind |-> KindOf(c), content |-> l[ListField(c)].content,
            tags |-> addClientTag(WithoutClientTags(l[ListField(c)].tags), secure)]
      [] OTHER ->
           [kind |-> KindOf(c), content |-> "",
            tags |-> addClientTag([i \in 1..Len(l[ListField(c)]) |->
                                      <<"relay", l[ListField(c)][i]>>], secure)]

\* the first unit at or after position i whose guard holds, Done if none
RECURSIVE NextAttempted(_, _)
NextAttempted(l, i) ==
    IF i >= Done THEN Done
    ELSE IF Attempted(l, UnitOrder[i]) THEN i ELSE NextAttempted(l, i + 1)

\* where control goes after a unit's catch block
NextUnitAborting(l, i) == Done

NextUnitRetrying(l, i) == i

NextUnitAfterFailure(l, i) == NextAttempted(l, i + 1)

\* the if (!user) guard at the head of mutationFn
PassesUserGuardUnchecked(u) == TRUE

PassesUserGuard(u) == u

EmptyResults ==
    [flags |-> [c \in Units |-> FALSE], errors |-> <<>>]

ListChoices == {<<>>, <<UrlB, UrlA>>}

ListInputs ==
    {l \in [inboxRelays : {<<>>, <<UrlA>>, <<UrlASlash, UrlB>>},
            outboxRelays : {<<>>, <<UrlA>>, <<UrlB>>},
            dmRelays : ListChoices, searchRelays : ListChoices,
            blockedRelays : ListChoices, indexerRelays : ListChoices,
            proxyRelays : ListChoices, broadcastRelays : ListChoices,
            trustedRelays : ListChoices,
            profileEvent : {Null, SampleProfileEvent},
            contactListEvent : {Null, SampleContactListEvent}] :
        Cardinality({c \in Units : Attempted(l, c)}) <= MaxAttempted}

EmptyLists ==
    [inboxRelays |-> <<>>, outboxRelays |-> <<>>, dmRelays |-> <<>>,
     searchRelays |-> <<>>, blockedRelays |-> <<>>, indexerRelays |-> <<>>,
     proxyRelays |-> <<>>, broadcastRelays |-> <<>>, trustedRelays |-> <<>>,
     profileEvent |-> Null, contactListEvent |-> Null]

\* The page's lists are the nine relay lists of the argument; the page passes
\* no profileEvent and no contactListEvent.
CalledFromPage(l) == l.profileEvent = Null /\ l.contactListEvent = Null

\* arraysEqual of the page: same length and, once both are sorted, the same
\* element at every position, that is, the same elements with the same counts.
arraysEqual(a, b) ==
    /\ Len(a) = Len(b)
    /\ \A x \in Range(a) \cup Range(b) :
         Cardinality({i \in 1..Len(a) : a[i] = x})
           = Cardinality({i \in 1..Len(b) : b[i] = x})

\* per page list: its field of originalState, its field of the publishLists
\* argument, and the unit that publishes it
PageListNames ==
    << <<"inbox", "inboxRelays", "nip65">>, <<"outbox", "outboxRelays", "nip65">>,
       <<"dm", "dmRelays", "dm">>, <<"search", "searchRelays", "search">>,
       <<"blocked", "blockedRelays", "blocked">>,
       <<"indexer", "indexerRelays", "indexer">>,
       <<"proxy", "proxyRelays", "proxy">>,
       <<"broadcast", "broadcastRelays", "broadcast">>,
       <<"trusted", "trustedRelays", "trusted">> >>

\* hasChanges of the page: false until originalState is set, then true when
\* some list differs from its original.
hasChanges(l, o) ==
    /\ o.present
    /\ \E k \in 1..Len(PageListNames) :
         ~arraysEqual(l[PageListNames[k][2]], o[PageListNames[k][1]])

\* The lists an account with one relay in every category loads into the page.
LoadedState ==
    [present |-> TRUE, inbox |-> <<UrlA>>, outbox |-> <<UrlA>>, dm |-> <<UrlA>>,
     search |-> <<UrlA>>, blocked |-> <<UrlA>>, indexer |-> <<UrlA>>,
     proxy |-> <<UrlA>>, broadcast |-> <<UrlA>>, trusted |-> <<UrlA>>]

\* handlePublish of the page after its await of publishLists has resolved:
\* originalState is replaced by the page's lists.
handlePublish(l, o) ==
    IF CalledFromPage(l)
    THEN [present |-> TRUE, inbox |-> l.inboxRelays, outbox |-> l.outboxRelays,
          dm |-> l.dmRelays, search |-> l.searchRelays,
          blocked |-> l.blockedRelays, indexer |-> l.indexerRelays,
          proxy |-> l.proxyRelays, broadcast |-> l.broadcastRelays,
          trusted |-> l.trustedRelays]
    ELSE o

\* Control reaches position i: either the signEvent call of the unit there is
\* issued, or, past the last unit, results is returned; mutateAsync then
\* resolves and the caller awaiting it continues.
EnterUnit(i) ==
    /\ pubIdx' = i
    /\ IF i = Done
       THEN /\ pubPc' = "returned"
            /\ pubPhase' = "none"
            /\ originalState' = handlePublish(lists, originalState)
            /\ UNCHANGED signLog
       ELSE /\ pubPc' = "running"
            /\ pubPhase' = "sign"
            /\ UNCHANGED originalState
            /\ signLog' = Append(signLog,
                  [unit |-> UnitOrder[i],
                   template |-> EventTemplate(lists, UnitOrder[i], secureOrigin)])

\* mutationFn is called without a user: it throws before anything else.
PublishRejected ==
    /\ pubPc = "idle"
    /\ ~PassesUserGuard(user)
    /\ pubPc' = "rejected"
    /\ UNCHANGED <<user, secureOrigin, lists, pubIdx, pubPhase, pubEvent, results,
                   signLog, sendLog, signOutcome, sendOutcome, originalState>>
    /\ UNCHANGED <<normVars, probeVars, aggVars>>

\* mutationFn is called with a user: results is created and the code runs up
\* to its first await.
PublishStart ==
    /\ pubPc = "idle"
    /\ PassesUserGuard(user)
    /\ results' = EmptyResults
    /\ EnterUnit(NextAttempted(lists, 1))
    /\ UNCHANGED <<user, secureOrigin, lists, pubEvent, sendLog, signOutcome, sendOutcome>>
    /\ UNCHANGED <<normVars, probeVars, aggVars>>

\* signEvent resolves: the signed event is handed to nostr.event.
SignResolves ==
    /\ pubPc = "running" /\ pubPhase = "sign"
    /\ user
    /\ LET c == UnitOrder[pubIdx]
           ev == signLog[Len(signLog)].template
       IN  /\ signOutcome' = [signOutcome EXCEPT ![c] = "ok"]
           /\ pubEvent' = [present |-> TRUE, event |-> ev]
           /\ sendLog' = Append(sendLog, [unit |-> c, event |-> ev])
    /\ pubPhase' = "send"
    /\ UNCHANGED <<user, secureOrigin, lists, pubPc, pubIdx, results, signLog,
                   sendOutcome, originalState>>
    /\ UNCHANGED <<normVars, probeVars, aggVars>>

\* signEvent rejects (or, without a user, reading user.signer throws): the
\* unit's catch block records the error.
SignRejects ==
    /\ pubPc = "running" /\ pubPhase = "sign"
    /\ \E e \in IF user THEN SignErrors ELSE {ErrSignerRefused} :
         LET c == UnitOrder[pubIdx]
         IN  /\ signOutcome' = [signOutcome EXCEPT ![c] = "failed"]
             /\ results' = [results EXCEPT
                   !.errors = Append(@, <<ErrorLabel(c), formatRelayError(e)>>)]
    /\ EnterUnit(NextUnitAfterFailure(lists, pubIdx))
    /\ pubEvent' = Null
    /\ UNCHANGED <<user, secureOrigin, lists, sendLog, sendOutcome>>
    /\ UNCHANGED <<normVars, probeVars, aggVars>>

\* nostr.event resolves: the unit's flag is set.
SendResolves ==
    /\ pubPc = "running" /\ pubPhase = "send"
    /\ LET c == UnitOrder[pubIdx]
       IN  /\ sendOutcome' = [sendOutcome EXCEPT ![c] = "ok"]
           /\ results' = [results EXCEPT !.flags[c] = TRUE]
    /\ EnterUnit(NextAttempted(lists, pubIdx + 1))
    /\ pubEvent' = Null
    /\ UNCHANGED <<user, secureOrigin, lists, sendLog, signOutcome>>
    /\ UNCHANGED <<normVars, probeVars, aggVars>>

\* nostr.event rejects (every relay refused) or its 10 s signal aborts it.
SendRejects ==
    /\ pubPc = "running" /\ pubPhase = "send"
    /\ \E e \in SendErrors :
         LET c == UnitOrder[pubIdx]
         IN  /\ sendOutcome' = [sendOutcome EXCEPT
                   ![c] = IF e = ErrTimeout THEN "timeout" ELSE "rejected"]
             /\ results' = [results EXCEPT
                   !.errors = Append(@, <<ErrorLabel(c), formatRelayError(e)>>)]
    /\ EnterUnit(NextUnitAfterFailure(lists, pubIdx))
    /\ pubEvent' = Null
    /\ UNCHANGED <<user, secureOrigin, lists, sendLog, signOutcome>>
    /\ UNCHANGED <<normVars, probeVars, aggVars>>


(***************************************************************************)
(* Health prober: useRelayPing of hooks/useRelayPing.ts                    *)
(*                                                                         *)
(* setStatuses(prev => ...) updaters are applied by React in the order in  *)
(* which they were queued, each to the result of the one before, so the    *)
(* map is modelled as updated at the call.  A promise continuation runs in *)
(* the microtasks of the task that settled the promise: no timer or        *)
(* network callback runs in between, so it belongs to the same step.       *)
(***************************************************************************)
ProbeUrls == {UrlA, UrlASlash}

\* Bounds of the explored runs.
MaxProbes == 2
MaxBatches == 2
MaxBatchLen == 2

TerminalStates == {"good", "ok", "bad"}

categorizeLatencyInclusive(latencyMs) ==
    IF latencyMs = <<>> THEN "bad"
    ELSE IF latencyMs[1] <= 100 THEN "good"
    ELSE IF latencyMs[1] <= 300 THEN "ok"
    ELSE "bad"
\* lib/relay-utils.ts categorizeLatency; null is <<>>, a number n is <<n>>
categorizeLatency(latencyMs) ==
    IF latencyMs = <<>> THEN "bad"
    ELSE IF latencyMs[1] < 100 THEN "good"
    ELSE IF latencyMs[1] < 300 THEN "ok"
    ELSE "bad"

\* An entry is {url, latency, status, nip11}; lastTested, the wall-clock time
\* of the write, is left out.  A key the map has no entry for:
Absent == [url |-> <<>>, latency |-> <<>>, status |-> "absent", nip11 |-> "none"]

\* result of testRelay when fetch returned a response
ResponseResult(url, ok, latency, nip11) ==
    IF ok
    THEN [url |-> url, latency |-> latency, status |-> categorizeLatency(latency), nip11 |-> nip11]
    ELSE [url |-> url, latency |-> <<>>, status |-> "bad",
          nip11 |-> "none"]

\* the outer catch of testRelay: the fetch rejected (network failure, timeout)
OnFetchFailureLeavesTesting(url) ==
    [raised |-> FALSE, write |-> TRUE,
     result |-> [url |-> url, latency |-> <<>>, status |-> "testing", nip11 |-> "none"]]

OnFetchFailureNoWrite(url) ==
    [raised |-> FALSE, write |-> FALSE,
     result |-> [url |-> url, latency |-> <<>>, status |-> "bad", nip11 |-> "none"]]

OnFetchFailure(url) ==
    [raised |-> FALSE, write |-> TRUE,
     result |-> [url |-> url, latency |-> <<>>, status |-> "bad", nip11 |-> "none"]]

\* setStatuses(prev => { next = new Map(prev); next.set(url, result) })
SetStatusKeepingFirst(map, url, entry) ==
    IF map[url].status \in TerminalStates THEN map ELSE [map EXCEPT ![url] = entry]

SetStatusFromStaleSnapshot(map, url, entry) ==
    [[u \in ProbeUrls |-> Absent] EXCEPT ![url] = entry]

SetStatus(map, url, entry) == [map EXCEPT ![url] = entry]

\* Promise.all over the promises of a batch: every timer has fired and every
\* testRelay call it made has resolved
AnySettled(b, pr) ==
    /\ b.fired >= 1
    /\ \E i \in 1..Len(b.probeIds) : pr[b.probeIds[i]].phase = "done"

AllSettled(b, pr) ==
    /\ b.fired = Len(b.urls)
    /\ \A i \in 1..Len(b.probeIds) : pr[b.probeIds[i]].phase = "done"

\* for (const result of results) resultMap.set(result.url, result)
LastIndexOf(b, url) ==
    CHOOSE i \in 1..Len(b.probeIds) :
        /\ b.urls[i] = url
        /\ \A j \in 1..Len(b.probeIds) : b.urls[j] = url => j <= i

ResultMapOf(b, pr) ==
    [u \in ProbeUrls |->
        IF \E i \in 1..Len(b.probeIds) : b.urls[i] = u
        THEN pr[b.probeIds[LastIndexOf(b, u)]].result
        ELSE Absent]

EmptyMap == [u \in ProbeUrls |-> Absent]

\* probes requested so far: started, or waiting for their timer
ProbesRequested ==
    Len(probes) + Cardinality({<<k, i>> \in (1..Len(batches)) \X (1..MaxBatchLen) :
                                  batches[k].fired < i /\ i <= Len(batches[k].urls)})

\* the synchronous part of testRelay(url), called directly (batch 0) or by
\* timer of batch b: the Testing write and the start of the fetch
StartProbe(url, b) ==
    /\ statuses' = SetStatus(statuses, url,
          [url |-> url, latency |-> <<>>, status |-> "testing",
           nip11 |-> "none"])
    /\ probes' = Append(probes,
          [url |-> url, batch |-> b, phase |-> "fetching", latency |-> <<>>,
           result |-> Absent, wrote |-> <<"testing">>])

\* the continuation of testAllRelays for batch k once Promise.all resolved
BatchAfter(k, pr) ==
    IF k > 0 /\ batches[k].phase = "waiting" /\ AllSettled(batches[k], pr)
    THEN [batches EXCEPT ![k] = [@ EXCEPT !.phase = "returned",
                                         !.resultMap = ResultMapOf(batches[k], pr)]]
    ELSE batches

\* testRelay call p settles with an outcome
SettleProbe(p, outcome) ==
    /\ probes' = [probes EXCEPT ![p] =
          [@ EXCEPT !.phase = IF outcome.raised THEN "raised" ELSE "done",
                    !.result = IF outcome.raised THEN Absent ELSE outcome.result,
                    !.wrote = IF outcome.write THEN Append(@, outcome.result.status) ELSE @]]
    /\ statuses' = IF outcome.write
                   THEN SetStatus(statuses, probes[p].url, outcome.result)
                   ELSE statuses
    /\ lastDone' = [lastDone EXCEPT ![probes[p].url] = p]
    /\ batches' = BatchAfter(probes[p].batch, probes')
    /\ isTesting' = IF batches' # batches THEN FALSE ELSE isTesting

\* testRelay(url) is called by the page
CallTestRelay ==
    /\ ProbesRequested < MaxProbes
    /\ \E url \in ProbeUrls : StartProbe(url, 0)
    /\ UNCHANGED <<isTesting, batches, lastDone>>
    /\ UNCHANGED <<normVars, pubVars, aggVars>>

\* testAllRelays(urls) is called with a non-empty list: setIsTesting(true) and
\* one timer per url, of delay index * 100
CallTestAllRelays ==
    /\ Len(batches) < MaxBatches
    /\ \E urls \in SeqsUpTo(ProbeUrls, MaxBatchLen) :
         /\ Len(urls) > 0
         /\ ProbesRequested + Len(urls) <= MaxProbes
         /\ batches' = Append(batches,
               [urls |-> urls, fired |-> 0, probeIds |-> <<>>, phase |-> "waiting",
                resultMap |-> EmptyMap])
    /\ isTesting' = TRUE
    /\ UNCHANGED <<statuses, probes, lastDone>>
    /\ UNCHANGED <<normVars, pubVars, aggVars>>

CallTestAllRelaysEmptyWithTimer ==
    /\ Len(batches) < MaxBatches
    /\ batches' = Append(batches,
          [urls |-> <<>>, fired |-> 0, probeIds |-> <<>>, phase |-> "waiting",
           resultMap |-> EmptyMap])
    /\ isTesting' = TRUE
    /\ UNCHANGED <<statuses, probes, lastDone>>
    /\ UNCHANGED <<normVars, pubVars, aggVars>>

\* testAllRelays([]): Promise.all([]) is already resolved, the call runs to
\* its return without a timer or a probe
CallTestAllRelaysEmpty ==
    /\ Len(batches) < MaxBatches
    /\ batches' = Append(batches,
          [urls |-> <<>>, fired |-> 0, probeIds |-> <<>>, phase |-> "returned",
           resultMap |-> EmptyMap])
    /\ isTesting' = FALSE
    /\ UNCHANGED <<statuses, probes, lastDone>>
    /\ UNCHANGED <<normVars, pubVars, aggVars>>

\* the next timer of batch k fires (delays grow with the index, so the timers
\* of one batch fire in index order) and calls testRelay
TimerFires ==
    /\ \E k \in 1..Len(batches) :
         /\ batches[k].fired < Len(batches[k].urls)
         /\ StartProbe(batches[k].urls[batches[k].fired + 1], k)
         /\ batches' = [batches EXCEPT ![k] =
               [@ EXCEPT !.fired = @ + 1, !.probeIds = Append(@, Len(probes) + 1)]]
    /\ UNCHANGED <<isTesting, lastDone>>
    /\ UNCHANGED <<normVars, pubVars, aggVars>>

\* fetch resolves with an ok response: latency is taken, response.json() is
\* awaited.  One latency stands for all: a probe reads it only through
\* categorizeLatency, and bad results come from the failure paths.
FetchRespondsOk ==
    /\ \E p \in 1..Len(probes), latency \in {99} :
         /\ probes[p].phase = "fetching"
         /\ probes' = [probes EXCEPT ![p] =
               [@ EXCEPT !.phase = "parsing", !.latency = <<latency>>]]
    /\ UNCHANGED <<statuses, isTesting, batches, lastDone>>
    /\ UNCHANGED <<normVars, pubVars, aggVars>>

\* response.json() resolves with the document, or rejects (unparsable body,
\* body cut by the timeout): the inner catch leaves nip11 undefined
JsonSettles ==
    /\ \E p \in 1..Len(probes), nip11 \in {"doc", "none"} :
         /\ probes[p].phase = "parsing"
         /\ SettleProbe(p,
               [raised |-> FALSE, write |-> TRUE,
                result |-> ResponseResult(probes[p].url, TRUE, probes[p].latency,
                                          nip11)])
    /\ UNCHANGED <<normVars, pubVars, aggVars>>

\* fetch resolves with an HTTP error status
FetchRespondsError ==
    /\ \E p \in 1..Len(probes) :
         /\ probes[p].phase = "fetching"
         /\ SettleProbe(p,
               [raised |-> FALSE, write |-> TRUE,
                result |-> ResponseResult(probes[p].url, FALSE, <<>>,
                                          "none")])
    /\ UNCHANGED <<normVars, pubVars, aggVars>>

\* fetch rejects: network failure, or the 5 s AbortSignal.timeout
FetchRejects ==
    /\ \E p \in 1..Len(probes) :
         /\ probes[p].phase = "fetching"
         /\ SettleProbe(p, OnFetchFailure(probes[p].url))
    /\ UNCHANGED <<normVars, pubVars, aggVars>>

\* clearStatuses()
ClearStatuses ==
    /\ statuses # EmptyMap
    /\ statuses' = EmptyMap
    /\ UNCHANGED <<isTesting, probes, batches, lastDone>>
    /\ UNCHANGED <<normVars, pubVars, aggVars>>

(***************************************************************************)
(* Social graph aggregator: useContactRelays.queryFn.                      *)
(* Pubkeys are numbers; 0 stands for a pubkey that filter(Boolean) drops   *)
(* (undefined or the empty string).  A tag is a sequence whose first       *)
(* element is its name.  displayName and picture of a contact are display  *)
(* data that no branch of the code reads; they are left out.               *)
(***************************************************************************)
BATCH_SIZE == 100

NIP65_RELAYS ==
    << <<"wss:", "/", "/", "purplepag.es">>,
       <<"wss:", "/", "/", "indexer.coracle.social">>,
       <<"wss:", "/", "/", "user.kindpag.es">> >>

PURPLEPAGES_URL == <<"wss:", "/", "/", "purplepag.es">>

\* the target of nostr.query: the application's relay pool
Pool == <<"pool">>

MaxAggBatches == 3    \* number of batches of the longest contact list
MaxEvents == 2        \* events in one response of a batch query
MaxProfileEvents == 1 \* events in one response of a profile query
MaxTestEvents == 1    \* events in the response of an existence probe (limit: 1)

\* contactListEvent.tags.filter(([name]) => name === 'p')
\*    .map(([, pk]) => pk).filter(Boolean)
PksOf(ptags) ==
    [k \in 1..Len(ptags) |-> IF Len(ptags[k]) >= 2 THEN ptags[k][2] ELSE 0]
ContactPubkeysOf(event) ==
    SelectSeq(PksOf(SelectSeq(event.tags,
                              LAMBDA t : Len(t) > 0 /\ t[1] = "p")),
              LAMBDA pk : pk # 0)

\* contactPubkeys.slice(i, i + BATCH_SIZE)
Slice(s, from, to) ==
    SubSeq(s, from + 1, IF to < Len(s) THEN to ELSE Len(s))

\* the contact lists a run is given: none, and lists of n contacts, n one
\* of 0, 1 and the multiples of BATCH_SIZE and their successors
PTags(n) == [k \in 1..n |-> <<"p", k>>]
ContactListEvents ==
    {Null}
      \cup {[present |-> TRUE, tags |-> PTags(n)] : n \in {0, 1}}
      \cup {[present |-> TRUE, tags |-> PTags(k * BATCH_SIZE + d)] :
               k \in 1..(MaxAggBatches - 1), d \in {0, 1}}
      \cup {[present |-> TRUE,
             tags |-> << <<"e", 7>>, <<"p">>, <<"p", 0>> >> \o PTags(n)] :
               n \in {0, 1}}

\* kind 10002 events a source may return; pubkey -1 is in no contact list
Nip65Events ==
    { [id |-> 1, pubkey |-> 1,
       tags |-> << <<"r", UrlA>>, <<"r", UrlASlash>>, <<"alt", UrlB>> >>],
      [id |-> 2, pubkey |-> BATCH_SIZE + 1,
       tags |-> << <<"r", UrlB>>, <<"r", UrlA, "read">> >>],
      [id |-> 3, pubkey |-> 0 - 1, tags |-> << <<"r", UrlB>> >>],
      [id |-> 4, pubkey |-> 1, tags |-> << <<"r", UrlB>>, <<"r">> >>] }

\* kind 0 events a source may return (legacy profile pass): content that
\* JSON.parse rejects, and metadata with a relay or a relays field
ProfileEvents ==
    { [pubkey |-> 1, parsable |-> FALSE, relay |-> <<>>, relays |-> <<>>],
      [pubkey |-> 1, parsable |-> TRUE, relay |-> UrlB, relays |-> <<>>],
      [pubkey |-> 2, parsable |-> TRUE, relay |-> <<>>,
       relays |-> <<UrlASlash>>] }

\* event.tags.filter(([n]) => n === 'r').map(([, url]) => normalizeRelayUrl(url))
\* normalizeRelayUrl(undefined) raises a TypeError: new URL(undefined)
\* throws and the catch calls undefined.toLowerCase()
RTagsOf(event) == SelectSeq(event.tags, LAMBDA t : Len(t) > 0 /\ t[1] = "r")
NormalizeRaises(event) == \E t \in Range(RTagsOf(event)) : Len(t) < 2
RelaysOf(event) ==
    [j \in 1..Len(RTagsOf(event)) |-> normalizeRelayUrl(RTagsOf(event)[j][2])]

\* if (!relayUsage.has(relay)) relayUsage.set(relay, new Set());
\* relayUsage.get(relay).add(pubkey)
UsageIndex(ru, url) ==
    IF \E i \in 1..Len(ru) : ru[i].url = url
    THEN CHOOSE i \in 1..Len(ru) : ru[i].url = url
    ELSE 0
AddUsageAtCountingMentions(ru, idx, url, pk) ==
    IF idx = 0
    THEN Append(ru, [url |-> url, pubkeys |-> <<pk>>])
    ELSE [ru EXCEPT ![idx].pubkeys = Append(@, pk)]
AddUsageAt(ru, idx, url, pk) ==
    IF idx = 0
    THEN Append(ru, [url |-> url, pubkeys |-> <<pk>>])
    ELSE IF pk \in Range(ru[idx].pubkeys)
         THEN ru
         ELSE [ru EXCEPT ![idx].pubkeys = Append(@, pk)]

RECURSIVE AddUsages(_, _, _, _)
AddUsages(ru, relays, pk, j) ==
    IF j > Len(relays)
    THEN ru
    ELSE AddUsages(AddUsageAt(ru, UsageIndex(ru, relays[j]), relays[j], pk),
                   relays, pk, j + 1)

\* if (!contactInfo.has(event.pubkey)) contactInfo.set(event.pubkey, {...})
InfoIndex(ci, pk) ==
    IF \E i \in 1..Len(ci) : ci[i].pubkey = pk
    THEN CHOOSE i \in 1..Len(ci) : ci[i].pubkey = pk
    ELSE 0
StoreContact(ci, pk, relays) ==
    IF InfoIndex(ci, pk) # 0
    THEN ci
    ELSE Append(ci, [pubkey |-> pk, relays |-> relays, source |-> "nip65"])

\* for (const event of nip65Events) { ... }: the maps after the loop, and
\* whether normalizeRelayUrl raised in it (the events before the raising
\* one are processed, the raising one and those after it are not)
RECURSIVE ProcessNip65Events(_, _, _, _)
ProcessNip65Events(events, k, ru, ci) ==
    IF k > Len(events)
    THEN [relayUsage |-> ru, contactInfo |-> ci, threw |-> FALSE]
    ELSE IF NormalizeRaises(events[k])
         THEN [relayUsage |-> ru, contactInfo |-> ci, threw |-> TRUE]
         ELSE ProcessNip65Events(events, k + 1,
                 AddUsages(ru, RelaysOf(events[k]), events[k].pubkey, 1),
                 StoreContact(ci, events[k].pubkey, RelaysOf(events[k])))

\* legacy profile pass: legacyRelays of the parsed metadata
LegacyRelaysOf(event) ==
    (IF event.relay # <<>> THEN <<normalizeRelayUrl(event.relay)>> ELSE <<>>)
      \o [j \in 1..Len(event.relays) |-> normalizeRelayUrl(event.relays[j])]

\* info.source = 'both' when NIP-65 data exists, a 'profile' entry when none
MergeProfileInfo(ci, idx, pk, legacyRelays) ==
    IF idx = 0
    THEN Append(ci, [pubkey |-> pk, relays |-> legacyRelays,
                     source |-> "profile"])
    ELSE IF ci[idx].source = "nip65"
         THEN [ci EXCEPT ![idx].source = "both"]
         ELSE ci

\* for (const relay of legacyRelays) { ... }
RECURSIVE LegacyRelayLoop(_, _, _, _, _)
LegacyRelayLoop(ru, ci, legacyRelays, pk, j) ==
    IF j > Len(legacyRelays)
    THEN [relayUsage |-> ru, contactInfo |-> ci]
    ELSE LegacyRelayLoop(AddUsageAt(ru, UsageIndex(ru, legacyRelays[j]),
                                    legacyRelays[j], pk),
                         MergeProfileInfo(ci, InfoIndex(ci, pk), pk,
                                          legacyRelays),
                         legacyRelays, pk, j + 1)

\* for (const event of profileEvents) { try { ... } catch {} }
RECURSIVE ProcessProfileEvents(_, _, _)
ProcessProfileEvents(events, k, maps) ==
    IF k > Len(events)
    THEN maps
    ELSE IF ~events[k].parsable
         THEN ProcessProfileEvents(events, k + 1, maps)
         ELSE ProcessProfileEvents(events, k + 1,
                 LegacyRelayLoop(maps.relayUsage, maps.contactInfo,
                                 LegacyRelaysOf(events[k]),
                                 events[k].pubkey, 1))

\* isSameRelay of relay-utils.ts
isSameRelay(url1, url2) == normalizeRelayUrl(url1) = normalizeRelayUrl(url2)

\* Array.from(pubkeys).map(pk => contactInfo.get(pk)).filter(defined)
InfosOf(known, ci) == [j \in 1..Len(known) |-> ci[InfoIndex(ci, known[j])]]
ContactsOf(pubkeys, ci) ==
    InfosOf(SelectSeq(pubkeys, LAMBDA pk : InfoIndex(ci, pk) # 0), ci)

\* hasNip65 && hasProfile ? 'both' : hasNip65 ? 'nip65' : 'profile'
SourceOf(contacts) ==
    IF \E c \in Range(contacts) : c.source \in {"nip65", "both"}
    THEN IF \E c \in Range(contacts) : c.source \in {"profile", "both"}
         THEN "both"
         ELSE "nip65"
    ELSE "profile"

\* new Set(userRelays.map(normalizeRelayUrl)), then
\* Array.from(userRelaySet).some(userRelay => isSameRelay(userRelay, url))
AlreadyUsed(ur, url) ==
    \E userRelay \in {normalizeRelayUrl(ur[j]) : j \in 1..Len(ur)} :
      isSameRelay(userRelay, url)

\* Array.from(relayUsage.entries()).map(([url, pubkeys]) => ({...}))
MapSuggestions(ru, ci, ur) ==
    [j \in 1..Len(ru) |->
       [url |-> ru[j].url,
        contactCount |-> Len(ru[j].pubkeys),
        contacts |-> ContactsOf(ru[j].pubkeys, ci),
        source |-> SourceOf(ContactsOf(ru[j].pubkeys, ci)),
        alreadyUsed |-> AlreadyUsed(ur, ru[j].url)]]

\* .sort((a, b) => b.contactCount - a.contactCount): Array.prototype.sort
\* is stable, so equal counts keep the order of the map
InsertPositionUnstable(sorted, x) ==
    IF \E i \in 1..Len(sorted) : sorted[i].contactCount <= x.contactCount
    THEN CHOOSE i \in 1..Len(sorted) :
           /\ sorted[i].contactCount <= x.contactCount
           /\ \A j \in 1..(i - 1) : sorted[j].contactCount > x.contactCount
    ELSE Len(sorted) + 1
InsertPosition(sorted, x) ==
    IF \E i \in 1..Len(sorted) : sorted[i].contactCount < x.contactCount
    THEN CHOOSE i \in 1..Len(sorted) :
           /\ sorted[i].contactCount < x.contactCount
           /\ \A j \in 1..(i - 1) : sorted[j].contactCount >= x.contactCount
    ELSE Len(sorted) + 1
RECURSIVE SortByContactCount(_, _, _)
SortByContactCount(items, k, sorted) ==
    IF k > Len(items)
    THEN sorted
    ELSE SortByContactCount(items, k + 1,
            SubSeq(sorted, 1, InsertPosition(sorted, items[k]) - 1)
              \o <<items[k]>>
              \o SubSeq(sorted, InsertPosition(sorted, items[k]), Len(sorted)))

ResultOf(cp, ru, ci, ur) ==
    [suggestions |-> SortByContactCount(MapSuggestions(ru, ci, ur), 1, <<>>),
     contactCount |-> Len(cp),
     analyzedCount |-> Len(ci)]

EmptyResult == [suggestions |-> <<>>, contactCount |-> 0, analyzedCount |-> 0]
ReturnedNull == [null |-> TRUE]

\* the entry of a query the run is suspended at, and its settled forms
QueryEntry(kind, i, target, authors) ==
    [kind |-> kind, i |-> i, target |-> target, authors |-> authors,
     outcome |-> "pending", threw |-> FALSE]
SettleLast(log, outcome, threw) ==
    [log EXCEPT ![Len(log)].outcome = outcome, ![Len(log)].threw = threw]
SettleProbeEntry(log, outcome, n) ==
    [log EXCEPT ![Len(log)].outcome = outcome, ![Len(log)].records = n]

\* relay.close() on the object at index idx (0: null, workingRelay?.close()
\* does nothing)
Closed(cn, idx) == IF idx = 0 THEN cn ELSE [cn EXCEPT ![idx].closed = TRUE]

\* workingRelay.query when a relay was adopted, nostr.query otherwise
BatchTarget(wr, cn) == IF wr # 0 THEN cn[wr].url ELSE Pool

\* if (testEvents.length > 0): adopt the relay and leave the loop
ProbeAdoptsEmpty(n) == n >= 0
ProbeAdopts(n) == n > 0

\* finally { workingRelay?.close() } and steps 4 of queryFn: the run returns
Finish(cp, wr, cn, ql, ru, ci) ==
    /\ aggPc' = "returned"
    /\ conns' = Closed(cn, wr)
    /\ queryLog' = ql
    /\ relayUsage' = ru
    /\ contactInfo' = ci
    /\ aggResult' = ResultOf(cp, ru, ci, userRelays)

\* head of the batch loop at index i: the query of the batch is issued and
\* the run suspends, or the loop is over
BatchLoop(cp, i, wr, cn, ql, ru, ci) ==
    IF i < Len(cp)
    THEN /\ aggPc' = "nip65"
         /\ conns' = cn
         /\ queryLog' = Append(ql, QueryEntry("nip65", i, BatchTarget(wr, cn),
                                              Slice(cp, i, i + BATCH_SIZE)))
         /\ relayUsage' = ru
         /\ contactInfo' = ci
         /\ aggResult' = aggResult
    ELSE Finish(cp, wr, cn, ql, ru, ci)

\* head of the loop over NIP65_RELAYS at position k: the relay object is
\* constructed and its existence probe issued, or the chain is exhausted
\* and the batch loop starts with workingRelay null
ChainLoop(k, cn, pl) ==
    IF k <= Len(NIP65_RELAYS)
    THEN /\ aggPc' = "chain"
         /\ conns' = Append(cn, [url |-> NIP65_RELAYS[k], closed |-> FALSE])
         /\ probeLog' = Append(pl, [url |-> NIP65_RELAYS[k],
                                    outcome |-> "pending", records |-> 0])
         /\ workingRelay' = 0
         /\ UNCHANGED <<queryLog, relayUsage, contactInfo, aggResult>>
    ELSE /\ probeLog' = pl
         /\ workingRelay' = 0
         /\ BatchLoop(contactPubkeys, 0, 0, cn, queryLog, relayUsage,
                      contactInfo)

\* queryFn is called: if (!pubkey) return null; otherwise the contact list
\* query is issued (lines 31-37 of the legacy file are the same)
CallQueryFn ==
    /\ aggPc = "idle"
    /\ \E hasPubkey \in BOOLEAN,
          ur \in {<<>>, <<UrlASlash, UrlB \o <<Slash, Slash>> >>} :
         /\ userRelays' = ur
         /\ IF hasPubkey
            THEN aggPc' = "contacts" /\ aggResult' = aggResult
            ELSE aggPc' = "returned" /\ aggResult' = ReturnedNull
    /\ UNCHANGED <<contactPubkeys, probeLog, workingRelay, conns, queryLog,
                   received, relayUsage, contactInfo>>
    /\ UNCHANGED <<normVars, pubVars, probeVars>>

\* the contact list query rejects (timeout, abort): no try encloses it
ContactsReject ==
    /\ aggPc = "contacts"
    /\ aggPc' = "failed"
    /\ UNCHANGED <<userRelays, contactPubkeys, probeLog, workingRelay, conns,
                   queryLog, received, relayUsage, contactInfo, aggResult>>
    /\ UNCHANGED <<normVars, pubVars, probeVars>>

ReturnNullForEmpty ==
    /\ aggPc' = "returned"
    /\ aggResult' = ReturnedNull
    /\ UNCHANGED <<userRelays, contactPubkeys, probeLog, workingRelay, conns,
                   queryLog, received, relayUsage, contactInfo>>
\* no contact list or no contact: the empty result
ReturnEmpty ==
    /\ aggPc' = "returned"
    /\ aggResult' = EmptyResult
    /\ UNCHANGED <<userRelays, contactPubkeys, probeLog, workingRelay, conns,
                   queryLog, received, relayUsage, contactInfo>>

\* the contact list query resolves
ContactsResolve ==
    /\ aggPc = "contacts"
    /\ \E ev \in ContactListEvents :
         IF ev = Null \/ Len(ContactPubkeysOf(ev)) = 0
         THEN ReturnEmpty
         ELSE /\ contactPubkeys' = ContactPubkeysOf(ev)
              /\ ChainLoop(1, conns, probeLog)
              /\ UNCHANGED <<userRelays, received>>
    /\ UNCHANGED <<normVars, pubVars, probeVars>>

\* the existence probe resolves with n events
ProbeResolves ==
    /\ aggPc = "chain"
    /\ \E n \in 0..MaxTestEvents :
         IF ProbeAdopts(n)
         THEN /\ probeLog' = SettleProbeEntry(probeLog, "resolved", n)
              /\ workingRelay' = Len(conns)
              /\ BatchLoop(contactPubkeys, 0, Len(conns), conns, queryLog,
                           relayUsage, contactInfo)
         ELSE ChainLoop(Len(probeLog) + 1, Closed(conns, Len(conns)),
                        SettleProbeEntry(probeLog, "resolved", n))
    /\ UNCHANGED <<userRelays, contactPubkeys, received>>
    /\ UNCHANGED <<normVars, pubVars, probeVars>>

\* the existence probe rejects: the catch logs, the relay object is left open
ProbeRejects ==
    /\ aggPc = "chain"
    /\ ChainLoop(Len(probeLog) + 1, conns,
                 SettleProbeEntry(probeLog, "rejected", 0))
    /\ UNCHANGED <<userRelays, contactPubkeys, received>>
    /\ UNCHANGED <<normVars, pubVars, probeVars>>

\* after the events of a batch were processed: the next batch, or, when
\* normalizeRelayUrl raised, the outer catch and the finally
AfterBatch(processed, ql) ==
    IF processed.threw
    THEN Finish(contactPubkeys, workingRelay, conns, SettleLast(ql, "resolved", TRUE),
                processed.relayUsage, processed.contactInfo)
    ELSE BatchLoop(contactPubkeys, ql[Len(ql)].i + BATCH_SIZE, workingRelay,
                   conns, SettleLast(ql, "resolved", FALSE),
                   processed.relayUsage, processed.contactInfo)

\* the query of a batch resolves
BatchResolves ==
    /\ aggPc = "nip65"
    /\ \E events \in SeqsUpTo(Nip65Events, MaxEvents) :
         /\ received' = received \cup Range(events)
         /\ AfterBatch(ProcessNip65Events(events, 1, relayUsage, contactInfo),
                       queryLog)
    /\ UNCHANGED <<userRelays, contactPubkeys, probeLog, workingRelay>>
    /\ UNCHANGED <<normVars, pubVars, probeVars>>

\* the query of a batch rejects: the inner catch logs and continues
BatchRejects ==
    /\ aggPc = "nip65"
    /\ BatchLoop(contactPubkeys, queryLog[Len(queryLog)].i + BATCH_SIZE,
                 workingRelay, conns, SettleLast(queryLog, "rejected", FALSE),
                 relayUsage, contactInfo)
    /\ UNCHANGED <<userRelays, contactPubkeys, probeLog, workingRelay,
                   received>>
    /\ UNCHANGED <<normVars, pubVars, probeVars>>

(***************************************************************************)
(* The single-indexer useContactRelays.queryFn (legacy file): one relay    *)
(* object for purplepag.es, a NIP-65 pass whose queries no try of their    *)
(* own encloses, then a profile pass with a try per batch.  Its steps 1    *)
(* and 4 are the text of the current file.                                 *)
(***************************************************************************)
\* head of the profile loop at index i
LegacyProfileLoop(cp, i, cn, ql, maps) ==
    IF i < Len(cp)
    THEN /\ aggPc' = "profiles"
         /\ conns' = cn
         /\ queryLog' = Append(ql, QueryEntry("profile", i, cn[1].url,
                                              Slice(cp, i, i + BATCH_SIZE)))
         /\ relayUsage' = maps.relayUsage
         /\ contactInfo' = maps.contactInfo
         /\ aggResult' = aggResult
    ELSE Finish(cp, 1, cn, ql, maps.relayUsage, maps.contactInfo)

\* head of the NIP-65 loop at index i
LegacyNip65Loop(cp, i, cn, ql, ru, ci) ==
    IF i < Len(cp)
    THEN /\ aggPc' = "nip65"
         /\ conns' = cn
         /\ queryLog' = Append(ql, QueryEntry("nip65", i, cn[1].url,
                                              Slice(cp, i, i + BATCH_SIZE)))
         /\ relayUsage' = ru
         /\ contactInfo' = ci
         /\ aggResult' = aggResult
    ELSE LegacyProfileLoop(cp, 0, cn, ql,
                           [relayUsage |-> ru, contactInfo |-> ci])

\* an exception leaves the try: finally { purplepages?.close() } and the
\* run rejects
LegacyAbort(ql, ru, ci) ==
    /\ aggPc' = "failed"
    /\ conns' = Closed(conns, 1)
    /\ queryLog' = ql
    /\ relayUsage' = ru
    /\ contactInfo' = ci
    /\ aggResult' = aggResult

\* the contact list query resolves
LegacyContactsResolve ==
    /\ aggPc = "contacts"
    /\ \E ev \in ContactListEvents :
         IF ev = Null \/ Len(ContactPubkeysOf(ev)) = 0
         THEN ReturnEmpty
         ELSE /\ contactPubkeys' = ContactPubkeysOf(ev)
              /\ workingRelay' = 1
              /\ LegacyNip65Loop(ContactPubkeysOf(ev), 0,
                                 Append(conns, [url |-> PURPLEPAGES_URL,
                                                closed |-> FALSE]),
                                 queryLog,
                                 relayUsage, contactInfo)
              /\ UNCHANGED <<userRelays, probeLog, received>>
    /\ UNCHANGED <<normVars, pubVars, probeVars>>

LegacyAfterNip65(processed, ql) ==
    IF processed.threw
    THEN LegacyAbort(SettleLast(ql, "resolved", TRUE), processed.relayUsage,
                     processed.contactInfo)
    ELSE LegacyNip65Loop(contactPubkeys, ql[Len(ql)].i + BATCH_SIZE, conns,
                         SettleLast(ql, "resolved", FALSE),
                         processed.relayUsage, processed.contactInfo)

\* the NIP-65 query of a batch resolves
LegacyNip65Resolves ==
    /\ aggPc = "nip65"
    /\ \E events \in SeqsUpTo(Nip65Events, MaxEvents) :
         /\ received' = received \cup Range(events)
         /\ LegacyAfterNip65(ProcessNip65Events(events, 1, relayUsage,
                                                contactInfo), queryLog)
    /\ UNCHANGED <<userRelays, contactPubkeys, probeLog, workingRelay>>
    /\ UNCHANGED <<normVars, pubVars, probeVars>>

\* the NIP-65 query of a batch rejects: the rejection leaves the try
LegacyNip65Rejects ==
    /\ aggPc = "nip65"
    /\ LegacyAbort(SettleLast(queryLog, "rejected", FALSE), relayUsage, contactInfo)
    /\ UNCHANGED <<userRelays, contactPubkeys, probeLog, workingRelay,
                   received>>
    /\ UNCHANGED <<normVars, pubVars, probeVars>>

\* the profile query of a batch resolves
LegacyProfilesResolve ==
    /\ aggPc = "profiles"
    /\ \E events \in SeqsUpTo(ProfileEvents, MaxProfileEvents) :
         LegacyProfileLoop(contactPubkeys,
            queryLog[Len(queryLog)].i + BATCH_SIZE, conns,
            SettleLast(queryLog, "resolved", FALSE),
            ProcessProfileEvents(events, 1,
               [relayUsage |-> relayUsage, contactInfo |-> contactInfo]))
    /\ UNCHANGED <<userRelays, contactPubkeys, probeLog, workingRelay,
                   received>>
    /\ UNCHANGED <<normVars, pubVars, probeVars>>

\* the profile query of a batch rejects: the empty catch continues
LegacyProfilesReject ==
    /\ aggPc = "profiles"
    /\ LegacyProfileLoop(contactPubkeys,
                         queryLog[Len(queryLog)].i + BATCH_SIZE, conns,
                         SettleLast(queryLog, "rejected", FALSE),
                         [relayUsage |-> relayUsage,
                          contactInfo |-> contactInfo])
    /\ UNCHANGED <<userRelays, contactPubkeys, probeLog, workingRelay,
                   received>>
    /\ UNCHANGED <<normVars, pubVars, probeVars>>

(***************************************************************************)
(* Pure functions of lib/relay-utils.ts applied to drawn arguments.  A     *)
(* call is a record [fn, args]; normIn holds the call, normOut1 its        *)
(* result.                                                                 *)
(***************************************************************************)
\* lib/relay-utils.ts isValidRelayUrl
isValidRelayUrl(url) ==
    IF ParseURL(url).ok
    THEN ParseURL(url).protocol = "wss:" \/ ParseURL(url).protocol = "ws:"
    ELSE FALSE

\* positions of the host and of what follows it in a string with a scheme
HostAt(s) == 2 + RunLen(s, 2, {Slash})
PortAt(s) == HostAt(s) + RunLen(s, HostAt(s), NameTokens)

\* the same URL written with the other letter case of its host
OtherCase(t) ==
    CASE t = "a.com" -> "A.COM"
      [] t = "A.COM" -> "a.com"
      [] OTHER -> t
HostCaseVariant(u) == [u EXCEPT ![HostAt(u)] = OtherCase(@)]

\* the same URL written with the default port of its scheme
DefaultPortVariant(u) ==
    SubSeq(u, 1, PortAt(u) - 1)
      \o <<DefaultPort(LowerToken(u[1]))>>
      \o SubSeq(u, PortAt(u), Len(u))

\* pairs of valid URLs: a URL and the same URL with one more slash at its
\* end, with the other host case, with the default port written out, and a
\* URL paired with an unrelated one
SameRelayCalls ==
    {[fn |-> "isSameRelay", kind |-> "slash", args |-> <<u, u \o <<Slash>> >>] :
        u \in {x \in RawUrls : isValidRelayUrl(x)}}
      \cup {[fn |-> "isSameRelay", kind |-> "case",
             args |-> <<u, HostCaseVariant(u)>>] :
              u \in {x \in RawUrls : isValidRelayUrl(x)
                                      /\ HostCaseVariant(x) # x}}
      \cup {[fn |-> "isSameRelay", kind |-> "port",
             args |-> <<u, DefaultPortVariant(u)>>] :
              u \in {x \in RawUrls : isValidRelayUrl(x)
                                      /\ ParseFromHost(x, LowerToken(x[1]),
                                           HostAt(x), PortAt(x)).ok
                                      /\ (PortAt(x) > Len(x)
                                          \/ x[PortAt(x)] \notin PortTokens)}}
      \cup {[fn |-> "isSameRelay", kind |-> "any", args |-> <<u, v>>] :
              u \in {x \in RawUrls : isValidRelayUrl(x)},
              v \in {UrlA, UrlASlash, UrlB}}

CallIsSameRelay ==
    /\ normPc = "input"
    /\ normIn.fn = "isSameRelay"
    /\ normOut1' = isSameRelay(normIn.args[1], normIn.args[2])
    /\ normPc' = "once"
    /\ UNCHANGED <<normIn, normOut2>>
    /\ UNCHANGED <<pubVars, probeVars, aggVars>>

\* lib/relay-utils.ts deduplicateRelays: for (const url of urls) { ... }
RECURSIVE DedupLoop(_, _, _, _)
DedupLoop(urls, k, seen, result) ==
    IF k > Len(urls)
    THEN result
    ELSE IF normalizeRelayUrl(urls[k]) \in seen
         THEN DedupLoop(urls, k + 1, seen, result)
         ELSE DedupLoop(urls, k + 1, seen \cup {normalizeRelayUrl(urls[k])},
                        Append(result, urls[k]))

deduplicateKeepingAll(urls) == urls
deduplicateRelays(urls) == DedupLoop(urls, 1, {}, <<>>)

\* lists handed to deduplicateRelays: up to MaxListLen URLs, among them
\* several raw forms of one identity and strings that do not parse
MaxListLen == 3
ListUrls ==
    {UrlA, UrlASlash, UrlB, <<"wss:", "/", "/", "a.com", ":443">>,
     <<"A.COM">>, <<"a.com", "/">>}
DedupCalls ==
    {[fn |-> "deduplicateRelays", args |-> urls] :
        urls \in SeqsUpTo(ListUrls, MaxListLen)}

CallDeduplicateRelays ==
    /\ normPc = "input"
    /\ normIn.fn = "deduplicateRelays"
    /\ normOut1' = deduplicateRelays(normIn.args)
    /\ normPc' = "once"
    /\ UNCHANGED <<normIn, normOut2>>
    /\ UNCHANGED <<pubVars, probeVars, aggVars>>

\* latencies handed to categorizeLatency: null and 0..MaxLatency milliseconds
MaxLatency == 400
LatencyCalls ==
    {[fn |-> "categorizeLatency", args |-> l] :
        l \in {<<>>} \cup {<<n>> : n \in 0..MaxLatency}}

CallCategorizeLatency ==
    /\ normPc = "input"
    /\ normIn.fn = "categorizeLatency"
    /\ normOut1' = categorizeLatency(normIn.args)
    /\ normPc' = "once"
    /\ UNCHANGED <<normIn, normOut2>>
    /\ UNCHANGED <<pubVars, probeVars, aggVars>>

(***************************************************************************)
(* The combined inbox/outbox tags built by the publisher and read back by  *)
(* the relay-list parser of useUserRelays.ts.  normOut1 holds the tags     *)
(* built, normOut2 the NIP65Relay list parsed from the event carrying      *)
(* them.                                                                   *)
(***************************************************************************)
\* nip65Event.tags.filter(([name]) => name === 'r').map(([, url, marker]) => ...)
ParseNip65MarkerRequired(tags) ==
    [j \in 1..Len(RTagsOf([tags |-> tags])) |->
       [url |-> normalizeRelayUrl(RTagsOf([tags |-> tags])[j][2]),
        read |-> Len(RTagsOf([tags |-> tags])[j]) >= 3
                   /\ RTagsOf([tags |-> tags])[j][3] = "read",
        write |-> Len(RTagsOf([tags |-> tags])[j]) >= 3
                    /\ RTagsOf([tags |-> tags])[j][3] = "write"]]
ParseNip65(tags) ==
    [j \in 1..Len(RTagsOf([tags |-> tags])) |->
       [url |-> normalizeRelayUrl(RTagsOf([tags |-> tags])[j][2]),
        read |-> Len(RTagsOf([tags |-> tags])[j]) < 3
                   \/ RTagsOf([tags |-> tags])[j][3] = "read",
        write |-> Len(RTagsOf([tags |-> tags])[j]) < 3
                    \/ RTagsOf([tags |-> tags])[j][3] = "write"]]

\* nip65.filter(r => r.read).map(r => r.url), and the same for write
UrlsOf(nip65) == [j \in 1..Len(nip65) |-> nip65[j].url]
getInboxRelays(nip65) == UrlsOf(SelectSeq(nip65, LAMBDA r : r.read))
getOutboxRelays(nip65) == UrlsOf(SelectSeq(nip65, LAMBDA r : r.write))

\* inbox and outbox lists of up to MaxTagListLen URLs: two raw forms of one
\* identity, a second host, and a URL ending in two slashes
MaxTagListLen == 2
TagCalls ==
    {[fn |-> "buildNIP65Tags", args |-> <<inbox, outbox>>] :
        inbox, outbox \in
          SeqsUpTo({UrlA, UrlASlash, UrlB, UrlA \o <<Slash, Slash>>},
                   MaxTagListLen)}

CallBuildNIP65Tags ==
    /\ normPc = "input"
    /\ normIn.fn = "buildNIP65Tags"
    /\ normOut1' = buildNIP65Tags(normIn.args[1], normIn.args[2])
    /\ normPc' = "once"
    /\ UNCHANGED <<normIn, normOut2>>
    /\ UNCHANGED <<pubVars, probeVars, aggVars>>

\* the kind 10002 event published with these tags (and the client tag of a
\* secure origin) is fetched and parsed
ParseRelayList ==
    /\ normPc = "once"
    /\ normIn.fn = "buildNIP65Tags"
    /\ \E secure \in BOOLEAN :
         normOut2' = ParseNip65(addClientTag(normOut1, secure))
    /\ normPc' = "twice"
    /\ UNCHANGED <<normIn, normOut1>>
    /\ UNCHANGED <<pubVars, probeVars, aggVars>>

(***************************************************************************)
(* Specifications                                                          *)
(***************************************************************************)
NormIdle ==
    /\ normPc = "input"
    /\ normIn = <<>>
    /\ normOut1 = <<>>
    /\ normOut2 = <<>>

PubIdle ==
    /\ user = FALSE
    /\ secureOrigin = FALSE
    /\ lists = EmptyLists
    /\ pubPc = "idle"
    /\ pubIdx = 0
    /\ pubPhase = "none"
    /\ pubEvent = Null
    /\ results = EmptyResults
    /\ signLog = <<>>
    /\ sendLog = <<>>
    /\ signOutcome = [c \in Units |-> "none"]
    /\ sendOutcome = [c \in Units |-> "none"]
    /\ originalState = Null

ProbeIdle ==
    /\ statuses = EmptyMap
    /\ isTesting = FALSE
    /\ probes = <<>>
    /\ batches = <<>>
    /\ lastDone = [u \in ProbeUrls |-> 0]

AggIdle ==
    /\ aggPc = "idle"
    /\ userRelays = <<>>
    /\ contactPubkeys = <<>>
    /\ probeLog = <<>>
    /\ workingRelay = 0
    /\ conns = <<>>
    /\ queryLog = <<>>
    /\ received = {}
    /\ relayUsage = <<>>
    /\ contactInfo = <<>>
    /\ aggResult = Null

InitNorm ==
    /\ normPc = "input"
    /\ normIn \in RawUrls
    /\ normOut1 = <<>>
    /\ normOut2 = <<>>
    /\ PubIdle
    /\ ProbeIdle
    /\ AggIdle

InitPublish ==
    /\ NormIdle
    /\ ProbeIdle
    /\ AggIdle
    /\ user \in BOOLEAN
    /\ secureOrigin \in BOOLEAN
    /\ lists \in ListInputs
    /\ pubPc = "idle"
    /\ pubIdx = 0
    /\ pubPhase = "none"
    /\ pubEvent = Null
    /\ results = EmptyResults
    /\ signLog = <<>>
    /\ sendLog = <<>>
    /\ signOutcome = [c \in Units |-> "none"]
    /\ sendOutcome = [c \in Units |-> "none"]
    /\ originalState = LoadedState

NextNorm == Canonicalize \/ CanonicalizeAgain

SpecNorm == InitNorm /\ [][NextNorm]_vars

InitUtils ==
    /\ normPc = "input"
    /\ \/ normIn \in SameRelayCalls
       \/ normIn \in DedupCalls
       \/ normIn \in LatencyCalls
       \/ normIn \in TagCalls
    /\ normOut1 = <<>>
    /\ normOut2 = <<>>
    /\ PubIdle
    /\ ProbeIdle
    /\ AggIdle

NextUtils ==
    \/ CallIsSameRelay
    \/ CallDeduplicateRelays
    \/ CallCategorizeLatency
    \/ CallBuildNIP65Tags
    \/ ParseRelayList

SpecUtils == InitUtils /\ [][NextUtils]_vars

NextPublish ==
    \/ PublishRejected
    \/ PublishStart
    \/ SignResolves
    \/ SignRejects
    \/ SendResolves
    \/ SendRejects

SpecPublish == InitPublish /\ [][NextPublish]_vars

\* every subsystem as constructed
InitIdle ==
    /\ NormIdle
    /\ PubIdle
    /\ ProbeIdle
    /\ AggIdle

ProbeSettles == JsonSettles \/ FetchRespondsOk \/ FetchRespondsError \/ FetchRejects

NextProbe ==
    \/ CallTestRelay
    \/ CallTestAllRelays
    \/ CallTestAllRelaysEmpty
    \/ TimerFires
    \/ FetchRespondsOk
    \/ JsonSettles
    \/ FetchRespondsError
    \/ FetchRejects
    \/ ClearStatuses

SpecProbe == InitIdle /\ [][NextProbe]_vars

\* Every fetch is bounded by its 5 s abort signal and every timer by its
\* delay: a pending probe settles and a pending timer fires.
SpecProbeFair ==
    /\ InitIdle
    /\ [][NextProbe]_vars
    /\ WF_vars(ProbeSettles)
    /\ WF_vars(TimerFires)

NextAgg ==
    \/ CallQueryFn
    \/ ContactsReject
    \/ ContactsResolve
    \/ ProbeResolves
    \/ ProbeRejects
    \/ BatchResolves
    \/ BatchRejects

SpecAgg == InitIdle /\ [][NextAgg]_vars

NextAggLegacy ==
    \/ CallQueryFn
    \/ ContactsReject
    \/ LegacyContactsResolve
    \/ LegacyNip65Resolves
    \/ LegacyNip65Rejects
    \/ LegacyProfilesResolve
    \/ LegacyProfilesReject

SpecAggLegacy == InitIdle /\ [][NextAggLegacy]_vars

(***************************************************************************)
(* Properties                                                              *)
(***************************************************************************)
\* C10: canonicalize(canonicalize(u)) = canonicalize(u) for every input
\* string, parsable or not.
C10_Idempotent == normPc = "twice" => normOut2 = normOut1

(***************************************************************************)
(* C11: for every pair of valid URLs that differ only in the letter case   *)
(* of the host, in a trailing slash or in an explicit scheme-default port, *)
(* isSameRelay returns true; and isSameRelay returns true exactly when the *)
(* two canonical identities are equal.                                     *)
(***************************************************************************)
C11_SameEndpoint ==
    (normPc = "once" /\ normIn.fn = "isSameRelay") =>
      /\ normIn.kind # "any" => normOut1 = TRUE
      /\ normOut1 = (normalizeRelayUrl(normIn.args[1])
                       = normalizeRelayUrl(normIn.args[2]))

\* ---- publication orchestrator

AttemptedUnits == {c \in Units : Attempted(lists, c)}
UnitFailed(c) == signOutcome[c] = "failed" \/ sendOutcome[c] \in {"rejected", "timeout"}
PositionOf(c) == CHOOSE i \in 1..Len(UnitOrder) : UnitOrder[i] = c

\* C1: a unit's flag is true exactly when its own sign and its own transport
\* publish both succeeded, whatever happened to the other units, and when the
\* invocation returns every unit with something to publish was attempted.
C1_UnitsIndependent ==
    pubPc \in {"running", "returned"} =>
      /\ \A c \in Units :
            results.flags[c] <=> (signOutcome[c] = "ok" /\ sendOutcome[c] = "ok")
      /\ pubPc = "returned" => \A c \in AttemptedUnits : signOutcome[c] # "none"

\* a returned invocation in which a unit failed and a later unit succeeded
C1_Witness ==
    /\ pubPc = "returned"
    /\ \E c, d \in AttemptedUnits :
         /\ PositionOf(c) < PositionOf(d)
         /\ UnitFailed(c)
         /\ results.flags[d]

TransportFailed == {c \in Units : sendOutcome[c] \in {"rejected", "timeout"}}
OneTransportFailureOfThree ==
    /\ pubPc = "returned"
    /\ Cardinality(AttemptedUnits) = 3
    /\ Cardinality(TransportFailed) = 1
    /\ \A c \in Units : signOutcome[c] # "failed"

\* C2: three units to publish, the transport fails for exactly one (and
\* nothing else fails): two true flags, one false flag among the three, and
\* one error entry whose label is that of the failed unit and of no other.
C2_TwoOfThree ==
    OneTransportFailureOfThree =>
      /\ Cardinality({c \in AttemptedUnits : results.flags[c]}) = 2
      /\ Cardinality({c \in AttemptedUnits : ~results.flags[c]}) = 1
      /\ Len(results.errors) = 1
      /\ \A c \in Units :
            (results.errors[1][1] = ErrorLabel(c)) <=> (c \in TransportFailed)

\* the scenario of C2 with the failing unit first, in the middle and last
C2_WitnessFirst ==
    /\ OneTransportFailureOfThree
    /\ \E c \in TransportFailed : \A d \in AttemptedUnits : PositionOf(c) <= PositionOf(d)

C2_Witness ==
    /\ OneTransportFailureOfThree
    /\ \E c \in TransportFailed : \E d, e \in AttemptedUnits :
         PositionOf(d) < PositionOf(c) /\ PositionOf(c) < PositionOf(e)

\* C9: without a user the invocation is rejected before any I/O: no sign
\* request, no transport publish, no outcome.
C9_RejectedBeforeIO ==
    ~user =>
      /\ pubPc \in {"idle", "rejected"}
      /\ signLog = <<>>
      /\ sendLog = <<>>
      /\ results = EmptyResults

\* an invocation without a user that had lists to publish was rejected
C9_Witness ==
    /\ ~user
    /\ pubPc = "rejected"
    /\ AttemptedUnits # {}

\* ---- health prober

InFlight(u) == {p \in 1..Len(probes) : probes[p].url = u /\ probes[p].phase \in {"fetching", "parsing"}}
ProbesOf(u) == {p \in 1..Len(probes) : probes[p].url = u}

\* C3: testAllRelays returns only after every probe of the batch has settled
\* (and does return then, never fails); the returned map holds a terminal
\* status for every URL of the batch, and each is the result of that URL's
\* own probe, whatever happened to the sibling probes.
C3_BatchJoins ==
    \A k \in 1..Len(batches) :
      LET b == batches[k]
          settled == /\ b.fired = Len(b.urls)
                     /\ \A i \in 1..Len(b.probeIds) : probes[b.probeIds[i]].phase = "done"
      IN  /\ b.phase \in {"waiting", "returned"}
          /\ (b.phase = "returned") <=> settled
          /\ b.phase = "returned" =>
                \A i \in 1..Len(b.urls) :
                  /\ b.resultMap[b.urls[i]].status \in TerminalStates
                  /\ \E j \in i..Len(b.urls) :
                        /\ b.urls[j] = b.urls[i]
                        /\ b.resultMap[b.urls[i]] = probes[b.probeIds[j]].result

\* a returned batch of two URLs in which one probe failed and the other
\* found its relay good
C3_Witness ==
    \E k \in 1..Len(batches) :
      /\ batches[k].phase = "returned"
      /\ Len(batches[k].urls) = 2
      /\ batches[k].urls[1] # batches[k].urls[2]
      /\ batches[k].resultMap[batches[k].urls[1]].latency = <<>>
      /\ batches[k].resultMap[batches[k].urls[2]].status = "good"

\* C4: whenever a testRelay call settles, it resolves (it does not raise) to a
\* status whose state is good, ok or bad, and that status is the entry of its
\* URL in the status map.
C4_ProbeNeverRaises ==
    [][\A p \in 1..Len(probes) :
         (probes[p].phase \in {"fetching", "parsing"}
            /\ probes'[p].phase \notin {"fetching", "parsing"}) =>
           /\ probes'[p].phase = "done"
           /\ probes'[p].result.status \in TerminalStates
           /\ probes'[p].result.url = probes[p].url
           /\ statuses'[probes[p].url] = probes'[p].result]_vars

\* one call settled by a rejected fetch, another by a response whose body
\* could not be parsed
C4_Witness ==
    \E p, q \in 1..Len(probes) :
      /\ probes[p].phase = "done" /\ probes[p].latency = <<>>
      /\ probes[q].phase = "done" /\ probes[q].latency # <<>>
      /\ probes[q].result.nip11 = "none"
      /\ probes[q].result.status \in {"good", "ok"}

C8_TestingOnlyInFlight ==
    /\ [](\A u \in ProbeUrls : InFlight(u) = {} => statuses[u].status # "testing")
    /\ [](\A p \in 1..Len(probes) :
            /\ probes[p].phase \in {"fetching", "parsing"} => probes[p].wrote = <<"testing">>
            /\ probes[p].phase = "done" =>
                  /\ Len(probes[p].wrote) = 2
                  /\ probes[p].wrote[1] = "testing"
                  /\ probes[p].wrote[2] \in TerminalStates)
    /\ <>[](\A p \in 1..Len(probes) : probes[p].phase = "done")

\* a URL probed again after a failed probe: both completed, entry terminal
C8_Witness ==
    \E u \in ProbeUrls : \E p, q \in ProbesOf(u) :
      /\ p < q
      /\ lastDone[u] = q
      /\ probes[p].phase = "done" /\ probes[p].result.latency = <<>>
      /\ probes[q].phase = "done"
      /\ statuses[u].status \in TerminalStates

(***************************************************************************)
(* Aggregator properties                                                   *)
(***************************************************************************)
Skipped(entry) ==
    \/ entry.outcome = "rejected"
    \/ entry.outcome = "resolved" /\ entry.records = 0
Adopted(entry) == entry.outcome = "resolved" /\ entry.records > 0
ChainSettled ==
    /\ Len(probeLog) > 0
    /\ \/ Adopted(probeLog[Len(probeLog)])
       \/ Len(probeLog) = Len(NIP65_RELAYS) /\ Skipped(probeLog[Len(probeLog)])

\* C5: the chain is probed one endpoint at a time in the order of
\* NIP65_RELAYS; a probe that rejects or returns no event is skipped; the
\* first probe that returns an event adopts its relay and ends the probing;
\* every batch query goes to the adopted relay, and to the pool only when
\* every endpoint of the chain was skipped; once batch queries are issued
\* neither the adopted relay nor the probes change.
C5_FallbackChain ==
    /\ [](/\ Len(probeLog) <= Len(NIP65_RELAYS)
          /\ \A k \in 1..Len(probeLog) :
                /\ probeLog[k].url = NIP65_RELAYS[k]
                /\ k < Len(probeLog) => Skipped(probeLog[k])
          /\ (workingRelay # 0) <=>
                (Len(probeLog) > 0 /\ Adopted(probeLog[Len(probeLog)]))
          /\ workingRelay # 0 =>
                conns[workingRelay].url = probeLog[Len(probeLog)].url
          /\ \A q \in 1..Len(queryLog) :
                /\ ChainSettled
                /\ queryLog[q].target =
                      IF workingRelay # 0
                      THEN probeLog[Len(probeLog)].url
                      ELSE Pool
                /\ queryLog[q].target = Pool =>
                      /\ Len(probeLog) = Len(NIP65_RELAYS)
                      /\ \A k \in 1..Len(probeLog) : Skipped(probeLog[k]))
    /\ [][Len(queryLog) > 0 =>
            workingRelay' = workingRelay /\ probeLog' = probeLog]_vars

\* the first endpoint is skipped, the second adopted, and two batches were
\* queried on it
C5_Witness ==
    /\ aggPc = "returned"
    /\ Len(probeLog) = 2
    /\ Skipped(probeLog[1])
    /\ Adopted(probeLog[2])
    /\ Len(queryLog) >= 2
    /\ \A q \in 1..Len(queryLog) : queryLog[q].target = NIP65_RELAYS[2]

BatchStarts(cp) == {i \in 0..Len(cp) : i < Len(cp) /\ i % BATCH_SIZE = 0}
Suggests(result, url, pk) ==
    \E j \in 1..Len(result.suggestions) :
      /\ result.suggestions[j].url = url
      /\ \E c \in 1..Len(result.suggestions[j].contacts) :
            result.suggestions[j].contacts[c].pubkey = pk

\* C6: a run in which the query of a batch was rejected (and in which no
\* returned record made the processing raise) ends by returning a result:
\* it does not fail, every batch of the contact list was queried, and every
\* relay of every event a resolved batch query returned is a suggestion
\* that lists the author of the event.
C6_BatchFailureContained ==
    (/\ aggPc \in {"returned", "failed"}
     /\ \E q \in 1..Len(queryLog) : queryLog[q].outcome = "rejected"
     /\ \A q \in 1..Len(queryLog) : ~queryLog[q].threw)
    => /\ aggPc = "returned"
       /\ \A i \in BatchStarts(contactPubkeys) :
             \E q \in 1..Len(queryLog) :
               queryLog[q].kind = "nip65" /\ queryLog[q].i = i
       /\ \A e \in received : \A url \in Range(RelaysOf(e)) :
             Suggests(aggResult, url, e.pubkey)
(***************************************************************************)
(* C12: deduplicateRelays returns exactly one entry per distinct canonical *)
(* identity of its input: the raw form of the first input URL that has     *)
(* the identity, the entries in the order of those first occurrences; no   *)
(* two entries of the result have the same identity.                       *)
(***************************************************************************)
FirstWith(urls, id) ==
    CHOOSE k \in 1..Len(urls) :
      /\ normalizeRelayUrl(urls[k]) = id
      /\ \A j \in 1..(k - 1) : normalizeRelayUrl(urls[j]) # id

C12_FirstRawPerIdentity ==
    (normPc = "once" /\ normIn.fn = "deduplicateRelays") =>
      /\ {normalizeRelayUrl(normOut1[i]) : i \in 1..Len(normOut1)}
           = {normalizeRelayUrl(normIn.args[k]) : k \in 1..Len(normIn.args)}
      /\ \A i, j \in 1..Len(normOut1) :
           i < j =>
             /\ normalizeRelayUrl(normOut1[i]) # normalizeRelayUrl(normOut1[j])
             /\ FirstWith(normIn.args, normalizeRelayUrl(normOut1[i]))
                  < FirstWith(normIn.args, normalizeRelayUrl(normOut1[j]))
      /\ \A i \in 1..Len(normOut1) :
           normOut1[i]
             = normIn.args[FirstWith(normIn.args,
                                     normalizeRelayUrl(normOut1[i]))]

\* a list with two identities, one of them written in two raw forms
C12_Witness ==
    /\ normPc = "once"
    /\ normIn.fn = "deduplicateRelays"
    /\ normIn.args = <<UrlASlash, UrlB, UrlA>>
    /\ normOut1 = <<UrlASlash, UrlB>>

(***************************************************************************)
(* C13: categorizeLatency maps null to bad, every latency below 100 to     *)
(* good, every latency from 100 up to but not including 300 to ok, and     *)
(* every latency of 300 or more to bad; it never returns unknown or        *)
(* testing.                                                                *)
(***************************************************************************)
C13_LatencyBuckets ==
    (normPc = "once" /\ normIn.fn = "categorizeLatency") =>
      /\ normIn.args = <<>> => normOut1 = "bad"
      /\ \A n \in 0..MaxLatency :
           normIn.args = <<n>> =>
             /\ n < 100 => normOut1 = "good"
             /\ (100 <= n /\ n < 300) => normOut1 = "ok"
             /\ n >= 300 => normOut1 = "bad"
      /\ normOut1 \notin {"unknown", "testing"}

\* the lower boundary of the ok bucket
C13_Witness ==
    /\ normPc = "once"
    /\ normIn.fn = "categorizeLatency"
    /\ normIn.args = <<100>>
    /\ normOut1 = "ok"

(***************************************************************************)
(* C14: the suggestions of a returned result are ordered by contactCount,  *)
(* largest first, and suggestions with equal counts keep the order in      *)
(* which their relays were first discovered (the order of the relayUsage   *)
(* map).                                                                   *)
(***************************************************************************)
HasSuggestions == aggPc = "returned" /\ "suggestions" \in DOMAIN aggResult

C14_SortedStable ==
    HasSuggestions =>
      \A i, j \in 1..Len(aggResult.suggestions) :
        i < j =>
          /\ aggResult.suggestions[i].contactCount
               >= aggResult.suggestions[j].contactCount
          /\ aggResult.suggestions[i].contactCount
               = aggResult.suggestions[j].contactCount
              => UsageIndex(relayUsage, aggResult.suggestions[i].url)
                   < UsageIndex(relayUsage, aggResult.suggestions[j].url)

\* the relay discovered second has more contacts and is suggested first
C14_Witness ==
    /\ HasSuggestions
    /\ Len(aggResult.suggestions) = 2
    /\ aggResult.suggestions[1].contactCount
         > aggResult.suggestions[2].contactCount
    /\ UsageIndex(relayUsage, aggResult.suggestions[1].url) = 2

(***************************************************************************)
(* C15: the contactCount of a suggestion is the number of distinct         *)
(* contacts whose relay-list records mention the identity of the           *)
(* suggestion: a contact that mentions it several times (repeated tags,    *)
(* raw URLs of one identity, the same record received more than once) is   *)
(* counted once.  Stated for runs in which every received record is        *)
(* authored by a contact and no record made the processing raise.          *)
(***************************************************************************)
Advertisers(url) ==
    {pk \in Range(contactPubkeys) :
       \E e \in received : e.pubkey = pk /\ url \in Range(RelaysOf(e))}

C16_AlreadyUsedIffConfigured ==
    HasSuggestions =>
      \A j \in 1..Len(aggResult.suggestions) :
        aggResult.suggestions[j].alreadyUsed
          = (\E k \in 1..Len(userRelays) :
               normalizeRelayUrl(userRelays[k])
                 = normalizeRelayUrl(aggResult.suggestions[j].url))

(***************************************************************************)
(* C17: when the contact list record is missing or lists no contact, the   *)
(* run returns {suggestions: [], contactCount: 0, analyzedCount: 0} and    *)
(* does not fail, and it issues no existence probe and no batch query.     *)
(***************************************************************************)
C17_NoContactsEmptyResult ==
    /\ [](/\ (aggPc = "returned" /\ contactPubkeys = <<>>)
               => (probeLog = <<>> /\ queryLog = <<>> /\ conns = <<>>)
          /\ (Len(probeLog) > 0 \/ Len(queryLog) > 0)
               => (contactPubkeys # <<>>))
    /\ [][(aggPc = "contacts" /\ aggPc' # "failed" /\ contactPubkeys' = <<>>)
           => /\ aggPc' = "returned"
              /\ aggResult' = EmptyResult]_vars

\* a run that was given a pubkey and found no contact
C17_Witness ==
    /\ aggPc = "returned"
    /\ aggResult = EmptyResult
    /\ contactPubkeys = <<>>
    /\ queryLog = <<>>

(***************************************************************************)
(* C18: buildNIP65Tags emits exactly one "r" tag per distinct identity of  *)
(* the inbox and outbox lists: with no marker when the identity is in both *)
(* lists, with "read" when it is only in inbox, with "write" when it is    *)
(* only in outbox; the URL of the tag is the first raw URL of the identity *)
(* met when inbox is scanned before outbox.                                *)
(***************************************************************************)
IdentitiesOf(urls) == {normalizeRelayUrl(urls[k]) : k \in 1..Len(urls)}

C18_OneTagPerIdentity ==
    (normPc # "input" /\ normIn.fn = "buildNIP65Tags") =>
      /\ {normalizeRelayUrl(normOut1[j][2]) : j \in 1..Len(normOut1)}
           = IdentitiesOf(normIn.args[1]) \cup IdentitiesOf(normIn.args[2])
      /\ \A i, j \in 1..Len(normOut1) :
           i # j => normalizeRelayUrl(normOut1[i][2])
                      # normalizeRelayUrl(normOut1[j][2])
      /\ \A j \in 1..Len(normOut1) :
           /\ normOut1[j][1] = "r"
           /\ normOut1[j][2]
                = (normIn.args[1] \o normIn.args[2])[
                     FirstWith(normIn.args[1] \o normIn.args[2],
                               normalizeRelayUrl(normOut1[j][2]))]
           /\ Len(normOut1[j])
                = IF normalizeRelayUrl(normOut1[j][2])
                       \in IdentitiesOf(normIn.args[1])
                            \cap IdentitiesOf(normIn.args[2])
                  THEN 2 ELSE 3
           /\ Len(normOut1[j]) = 3 =>
                normOut1[j][3]
                  = IF normalizeRelayUrl(normOut1[j][2])
                         \in IdentitiesOf(normIn.args[1])
                    THEN "read" ELSE "write"

\* one identity in both lists under two raw forms, one only in outbox
C18_Witness ==
    /\ normPc = "once"
    /\ normIn.fn = "buildNIP65Tags"
    /\ normIn.args = << <<UrlASlash>>, <<UrlA, UrlB>> >>
    /\ normOut1 = << <<"r", UrlASlash>>, <<"r", UrlB, "write">> >>

(***************************************************************************)
(* C19: for all inbox and outbox lists, the tags built by buildNIP65Tags,  *)
(* parsed back by the relay-list parser (no marker: read and write,        *)
(* "read": read only, "write": write only), give a read set equal to the   *)
(* identities of inbox and a write set equal to the identities of outbox.  *)
(***************************************************************************)
C19_RoundTrip ==
    (normPc = "twice" /\ normIn.fn = "buildNIP65Tags") =>
      /\ Range(getInboxRelays(normOut2)) = IdentitiesOf(normIn.args[1])
      /\ Range(getOutboxRelays(normOut2)) = IdentitiesOf(normIn.args[2])

\* inbox = [A, B], outbox = [B, C]
C19_Witness ==
    /\ normPc = "twice"
    /\ normIn.fn = "buildNIP65Tags"
    /\ normIn.args = << <<UrlA, UrlB>>, <<UrlB, UrlA \o <<Slash, Slash>> >> >>
    /\ getInboxRelays(normOut2) = <<UrlA, UrlB>>
    /\ getOutboxRelays(normOut2) = <<UrlB, UrlA \o <<Slash>> >>

(***************************************************************************)
(* C20: every event the publisher submits carries the kind of its          *)
(* category (inbox/outbox 10002, DM 10050, search 10007, blocked 10006,    *)
(* indexer 10086, proxy 10087, broadcast 10088, trusted 10089), and for    *)
(* every category but inbox/outbox its relay tags are exactly one          *)
(* ["relay", url] per entry of the category's list, in list order.         *)
(***************************************************************************)
RecordTypes ==
    [nip65 |-> 10002, dm |-> 10050, search |-> 10007, blocked |-> 10006,
     indexer |-> 10086, proxy |-> 10087, broadcast |-> 10088,
     trusted |-> 10089]

C20_KindAndRelayTags ==
    \A k \in 1..Len(sendLog) :
      sendLog[k].unit \in DOMAIN RecordTypes =>
        /\ sendLog[k].event.kind = RecordTypes[sendLog[k].unit]
        /\ sendLog[k].unit # "nip65" =>
             WithoutClientTags(sendLog[k].event.tags)
               = [i \in 1..Len(lists[ListField(sendLog[k].unit)]) |->
                    <<"relay", lists[ListField(sendLog[k].unit)][i]>>]

\* three list categories were submitted, the last of them the trusted list
C20_Witness ==
    /\ Len(sendLog) = 3
    /\ sendLog[1].unit = "nip65"
    /\ sendLog[2].unit = "dm"
    /\ sendLog[3].unit = "trusted"
    /\ sendLog[3].event.kind = 10089
    /\ WithoutClientTags(sendLog[3].event.tags)
         = << <<"relay", UrlB>>, <<"relay", UrlA>> >>

(***************************************************************************)
(* C21: the status map holds at most one entry per relay identity: two raw *)
(* URLs with the same canonical identity are probed through the same       *)
(* entry of the map.                                                       *)
(***************************************************************************)
C21_OneEntryPerIdentity ==
    \A u, v \in ProbeUrls :
      (/\ normalizeRelayUrl(u) = normalizeRelayUrl(v)
       /\ statuses[u] # Absent
       /\ statuses[v] # Absent)
      => u = v

(***************************************************************************)
(* C22: testAllRelays on an empty list returns an empty map without error  *)
(* and without waiting for anything: it starts no probe, schedules no      *)
(* timer and leaves the status map unchanged.                              *)
(***************************************************************************)
C22_EmptyBatchReturnsAtOnce ==
    /\ [](\A k \in 1..Len(batches) :
            batches[k].urls = <<>> =>
              /\ batches[k].phase = "returned"
              /\ batches[k].resultMap = EmptyMap
              /\ batches[k].probeIds = <<>>
              /\ batches[k].fired = 0)
    /\ [][\A k \in 1..Len(batches') :
            (k > Len(batches) /\ batches'[k].urls = <<>>)
              => (statuses' = statuses /\ probes' = probes)]_vars

\* an empty call made while the map holds the entry of an earlier probe
C22_Witness ==
    /\ Len(batches) = 1
    /\ batches[1].urls = <<>>
    /\ batches[1].phase = "returned"
    /\ Len(probes) = 1
    /\ statuses[UrlA].status = "good"

(***************************************************************************)
(* C23: in a run the contacts are partitioned into consecutive batches of  *)
(* at most BATCH_SIZE, every contact in exactly one batch, and the         *)
(* suggestions are ranked only after the query of every batch has either   *)
(* completed or individually failed.                                       *)
(***************************************************************************)
Nip65Queries == {q \in 1..Len(queryLog) : queryLog[q].kind = "nip65"}

C23_AllBatchesBeforeRanking ==
    (HasSuggestions /\ contactPubkeys # <<>>) =>
      /\ \A q \in Nip65Queries :
           /\ queryLog[q].outcome \in {"resolved", "rejected"}
           /\ Len(queryLog[q].authors) <= BATCH_SIZE
           /\ queryLog[q].authors
                = SubSeq(contactPubkeys, queryLog[q].i + 1,
                         queryLog[q].i + Len(queryLog[q].authors))
      /\ \A c \in 1..Len(contactPubkeys) :
           Cardinality({q \in Nip65Queries :
                          /\ queryLog[q].i < c
                          /\ c <= queryLog[q].i + Len(queryLog[q].authors)}) = 1

(***************************************************************************)
(* C24: every write a probe makes to the status map (the testing write and *)
(* the terminal write) changes only the entry of the probed URL: the       *)
(* entries of all other URLs are the same before and after the write,      *)
(* under any interleaving of concurrent probes.                            *)
(***************************************************************************)
C24_PointWrites ==
    [][probes' # probes =>
         \E p \in 1..Len(probes') :
           /\ p > Len(probes) \/ probes'[p] # probes[p]
           /\ \A u \in ProbeUrls :
                u # probes'[p].url => statuses'[u] = statuses[u]]_vars

\* a probe of one URL completed while the probe of another was in flight
C24_Witness ==
    /\ Len(probes) = 2
    /\ probes[1].url # probes[2].url
    /\ probes[1].phase = "fetching"
    /\ probes[2].phase = "done"
    /\ statuses[probes[1].url].status = "testing"
    /\ statuses[probes[2].url].status \in TerminalStates

(***************************************************************************)
(* C25: a category whose list is empty is skipped: no event is signed or   *)
(* submitted for it, its flag stays false and no error entry is added for  *)
(* it; the inbox/outbox category is attempted when at least one of the     *)
(* inbox and outbox lists is non-empty.                                    *)
(***************************************************************************)
ListIsEmpty(c) ==
    IF c = "nip65"
    THEN lists.inboxRelays = <<>> /\ lists.outboxRelays = <<>>
    ELSE lists[ListField(c)] = <<>>

C25_EmptyCategorySkipped ==
    /\ \A c \in DOMAIN RecordTypes :
         ListIsEmpty(c) =>
           /\ \A k \in 1..Len(signLog) : signLog[k].unit # c
           /\ \A k \in 1..Len(sendLog) : sendLog[k].unit # c
           /\ ~results.flags[c]
           /\ \A k \in 1..Len(results.errors) :
                results.errors[k][1] # ErrorLabel(c)
    /\ (pubPc = "returned" /\ ~ListIsEmpty("nip65"))
         => \E k \in 1..Len(signLog) : signLog[k].unit = "nip65"

\* only the inbox list and the search list are filled: two units were
\* attempted, the inbox/outbox one and the search one
C25_Witness ==
    /\ pubPc = "returned"
    /\ lists.inboxRelays # <<>>
    /\ lists.outboxRelays = <<>>
    /\ lists.dmRelays = <<>>
    /\ Len(signLog) = 2
    /\ signLog[1].unit = "nip65"
    /\ signLog[2].unit = "search"

(***************************************************************************)
(* C26: in the outcome of one invocation no category has both a true flag  *)
(* and an error entry, the number of error entries equals the number of    *)
(* attempted categories that failed, and the error entries appear in the   *)
(* fixed attempt order of the categories.  Stated for all units of the     *)
(* invocation: the eight categories, followed by the profile and the       *)
(* contact list events.                                                    *)
(***************************************************************************)
C26_ErrorsMatchFailures ==
    pubPc \in {"running", "returned"} =>
      /\ \A k \in 1..Len(results.errors) :
           \E c \in Units :
             /\ results.errors[k][1] = ErrorLabel(c)
             /\ UnitFailed(c)
             /\ ~results.flags[c]
      /\ Len(results.errors)
           = Cardinality({c \in Units : UnitFailed(c) /\ Attempted(lists, c)})
      /\ \A k \in 1..(Len(results.errors) - 1) :
           \E i \in 1..Len(UnitOrder) :
             /\ results.errors[k][1] = ErrorLabel(UnitOrder[i])
             /\ \E j \in (i + 1)..Len(UnitOrder) :
                  results.errors[k + 1][1] = ErrorLabel(UnitOrder[j])

\* three units attempted: the first and the last failed, the middle one
\* succeeded
C26_Witness ==
    /\ pubPc = "returned"
    /\ Len(results.errors) = 2
    /\ \E c, d, e \in AttemptedUnits :
         /\ PositionOf(c) < PositionOf(d) /\ PositionOf(d) < PositionOf(e)
         /\ results.errors[1][1] = ErrorLabel(c)
         /\ results.flags[d]
         /\ results.errors[2][1] = ErrorLabel(e)

(***************************************************************************)
(* C27: isTesting is true in every state in which at least one             *)
(* testAllRelays call is in flight, including when two calls overlap and   *)
(* one of them returns before the other.                                   *)
(***************************************************************************)
C27_TestingWhileInFlight ==
    (\E k \in 1..Len(batches) : batches[k].phase = "waiting") => isTesting

(***************************************************************************)
(* C28: every connection to an index relay that a run opens is closed by   *)
(* the time the run returns or fails: the adopted one after the batch      *)
(* loop, every other one whether its existence probe returned no record    *)
(* or failed.                                                              *)
(***************************************************************************)
C28_ConnectionsClosed ==
    aggPc \in {"returned", "failed"} =>
      \A c \in 1..Len(conns) : conns[c].closed

(***************************************************************************)
(* C29: in every returned result analyzedCount is at most contactCount and *)
(* every contact counted in a suggestion is a member of the contact list,  *)
(* whatever records the queried source returns.                            *)
(***************************************************************************)
C29_OnlyContactsCounted ==
    HasSuggestions =>
      /\ aggResult.analyzedCount <= aggResult.contactCount
      /\ \A j \in 1..Len(aggResult.suggestions) :
           /\ \A c \in 1..Len(aggResult.suggestions[j].contacts) :
                aggResult.suggestions[j].contacts[c].pubkey
                  \in Range(contactPubkeys)
           /\ aggResult.suggestions[j].contactCount
                <= Cardinality(Range(contactPubkeys))


\* the handler of the page has completed: publishLists resolved for a call the
\* page made
HandlerCompleted == pubPc = "returned" /\ CalledFromPage(lists)

\* an attempted unit whose publication failed
FailedUnit(c) == Attempted(lists, c) /\ ~results.flags[c]

\* C30: after the page's publish handler completes, hasChanges is false only
\* if every attempted category was published, and a list that was edited and
\* whose category failed to publish still differs from originalState.
C30_UnchangedOnlyIfAllPublished ==
    HandlerCompleted =>
      /\ (~hasChanges(lists, originalState) => \A c \in Units : ~FailedUnit(c))
      /\ \A k \in 1..Len(PageListNames) :
           (/\ FailedUnit(PageListNames[k][3])
            /\ ~arraysEqual(lists[PageListNames[k][2]], LoadedState[PageListNames[k][1]]))
             => ~arraysEqual(lists[PageListNames[k][2]], originalState[PageListNames[k][1]])

\* what does hold: once the handler has completed hasChanges is false,
\* whatever the outcome of the categories
C30_HandlerClearsChanges ==
    HandlerCompleted => ~hasChanges(lists, originalState)

\* the handler completed after a category failed
C30_FailedCategory ==
    HandlerCompleted /\ \E c \in Units : FailedUnit(c)

====
